---- MODULE Spec2Model ----
(***************************************************************************)
(* ChatbotService (services/chatbotService.js): the per-user session       *)
(* registry, the message queue with its single draining worker, and the    *)
(* response pipeline that the worker runs for each queued message.         *)
(*                                                                         *)
(* JavaScript runs one callback at a time, so every action below is the    *)
(* code that runs between two suspension points (await / timer / inbound   *)
(* call).  Time is counted in units of five minutes.                       *)
(***************************************************************************)
EXTENDS Integers, Sequences, FiniteSets, TLC

\* ------------------------------------------------------------------ bounds
\* Wall-clock horizon of a run, in five-minute units.
MaxTime == 8
\* Number of processMessage calls in a run.
MaxRequests == 4
\* this.maxQueueSize = 100 in the source; scaled down so that a full queue is
\* reached within MaxRequests calls.
maxQueueSize == 2

\* ------------------------------------------------------- program constants
\* this.sessionTimeout = 30 * 60 * 1000 ms = 6 five-minute units.
sessionTimeout == 6
\* setInterval(..., 10 * 60 * 1000) = 2 five-minute units.
cleanupInterval == 2
\* aiMatch.confidence > 60 for a Google Docs match.
docsThreshold == 60
\* aiMatch.confidence > 70 for a Google Sheets match.
sheetsThreshold == 70

Users == {"u1", "u2"}
Messages == {"m1", "m2"}

\* ------------------------------------------------------- reply strings
\* addToQueue, queue full.
QueueFullApology == "APOLOGY_SYSTEM_BUSY"
\* processMessage, catch block.
SystemErrorApology == "APOLOGY_SYSTEM_ERROR"
\* processMessageDirect, service not initialized.
StartupDefault == "DEFAULT_STARTING_UP"
\* processMessageDirect, catch block.
ErrorDefault == "DEFAULT_ERROR"
\* generateAIResponse, Gemini unavailable or failing.
DefaultResponse == "DEFAULT_CANNOT_ANSWER"
\* Answers derived from the providers' content.
DocsAnswer == "ANSWER_DOCS"
SheetsAnswer == "ANSWER_SHEETS"
AiAnswer == "ANSWER_AI"
\* The text of an exception (error.message), never meant for the user.
TechnicalError == "TECHNICAL_ERROR"

ContextAnswers == {DocsAnswer, SheetsAnswer, AiAnswer}
Apologies == {QueueFullApology, SystemErrorApology, StartupDefault, ErrorDefault,
              DefaultResponse}

VARIABLES
  now,            \* Date.now(), in five-minute units
  isInitialized,  \* this.isInitialized
  initPc,         \* position of initialize(): "running" | "done"
  cleanupTimer,   \* 0: no interval timer; otherwise the time of its next firing
  userSessions,   \* this.userSessions: a Map userId -> session object
  messageQueue,   \* this.messageQueue
  isProcessing,   \* this.isProcessing
  workers,        \* processMessageQueue invocations inside their while loop
  inFlight,       \* queue items whose processMessageDirect call has not finished
  nextId,         \* number of processMessage / addToQueue calls made so far
  pending,        \* ids of requests whose promise is not settled yet
  invoked,        \* ids in the order processMessageDirect was invoked for them
  shed,           \* ids of requests turned away by the queue-size check
  burst,          \* addToQueue calls made since the sequencer was idle and empty
                  \* with no completion in between; -1 once a request completed
  last,           \* the operation that produced this state, with its results
  \* GoogleDocsService
  clock,          \* Date.now() as the document cache reads it, in 30-second units
  docsClient,     \* this.docs: "null" | "client"
  contentCache,   \* this.contentCache
  cacheTimestamp, \* this.cacheTimestamp
  isLoading,      \* this.isLoading
  loadingPromise, \* this.loadingPromise: 0 for null, else the number of a fetch
  fetches,        \* the promises _loadDocumentContent() has returned, in order
  calls,          \* per caller, where its getDocumentContent call stands
  \* GoogleSheetsService
  sheetsClient,   \* this.sheets: "null" | "client"
  range,          \* this.range: a range such as 'Sheet1!B:C', or 'ALL_SHEETS'
  sheetNames,     \* this.sheetNames
  keywordsData,   \* this.keywordsData
  lastUpdate,     \* this.lastUpdate: 0 for null
  loads,          \* per loader, where its loadKeywordsData call stands
  \* GeminiService
  genCall,        \* the generateResponse call in progress, if any
  genLog,         \* how the generateResponse calls made so far ended
  \* message analysis
  analysisInput,  \* what the calls made by enhancedMessageAnalysis give for
                  \* the message being analysed
  \* replies
  handling,       \* where the processMessageDirect call in progress stands
  draft,          \* an answer about to be formatted, and botPersonality.language
  \* RateLimiter (utils/rateLimiter.js) and the webhook handler
  limiterRequests,\* this.requests: identifier -> times of the recorded requests
  limiterNow,     \* Date.now() as the limiter reads it, in units of windowMs / Window
  webhook,        \* the lineHandler calls in progress, and how many requests
                  \* of each user the limiter admitted at each time
  \* AutoRefreshService (services/autoRefreshService.js)
  isRunning,      \* this.isRunning
  intervalId,     \* this.intervalId (0 for null)
  refreshInterval,\* this.refreshInterval, in ms
  timers,         \* the runtime's interval timers (id -> delay), the number of
                  \* setInterval calls made and of refreshData calls under way
  \* ChatService (services/chatService.js), the small-service variant
  chatCache,      \* this.cache
  chatNow,        \* Date.now() as ChatService reads it, in minutes
  chatCalls,      \* the getDocumentContent calls waiting for the provider
  providerFetches,\* number of googleDocsService.getDocumentContent() calls made
                  \* by ChatService
  \* LineService (services/lineService.js)
  pushed          \* the sendTextMessage call made: its text and the texts pushed

vars == <<now, isInitialized, initPc, cleanupTimer, userSessions, messageQueue,
          isProcessing, workers, inFlight, nextId, pending, invoked, shed, burst,
          last, clock, docsClient, contentCache, cacheTimestamp, isLoading,
          loadingPromise, fetches, calls, sheetsClient, range, sheetNames,
          keywordsData, lastUpdate, loads, genCall, genLog, analysisInput,
          handling, draft, limiterRequests, limiterNow, webhook, isRunning, intervalId,
          refreshInterval, timers, chatCache, chatNow, chatCalls, providerFetches,
          pushed>>

sessionVars == <<userSessions>>
queueVars == <<messageQueue, isProcessing, workers, inFlight, nextId, pending,
               invoked, shed, burst>>
initVars == <<isInitialized, initPc, cleanupTimer>>
chatVars == <<now, initVars, sessionVars, queueVars>>
docsVars == <<clock, docsClient, contentCache, cacheTimestamp, isLoading,
              loadingPromise, fetches, calls>>
sheetsVars == <<sheetsClient, range, sheetNames, keywordsData, lastUpdate, loads>>
genVars == <<genCall, genLog>>
analysisVars == <<analysisInput>>
replyVars == <<handling, draft>>
limiterVars == <<limiterRequests, limiterNow, webhook>>
autoRefreshVars == <<isRunning, intervalId, refreshInterval, timers>>
smallChatVars == <<chatCache, chatNow, chatCalls, providerFetches>>
lineVars == <<pushed>>
edgeVars == <<limiterVars, autoRefreshVars, smallChatVars, lineVars>>
dataVars == <<docsVars, sheetsVars, genVars, analysisVars, replyVars, edgeVars>>
nonDocsVars == <<chatVars, sheetsVars, genVars, analysisVars, replyVars, edgeVars>>
nonSheetsVars == <<chatVars, docsVars, genVars, analysisVars, replyVars, edgeVars>>
nonGenVars == <<chatVars, docsVars, sheetsVars, analysisVars, replyVars, edgeVars>>
coreVars == <<chatVars, docsVars, sheetsVars, genVars, analysisVars, replyVars>>

NoOp == [op |-> "none"]

\* ------------------------------------------------------- session registry
\* getUserSession with <= in place of <.
getUserSession_inclusive(sessions, userId, t) ==
  IF userId \in DOMAIN sessions /\ t - sessions[userId].timestamp <= sessionTimeout
    THEN [result |-> {sessions[userId]}, sessions |-> sessions]
    ELSE [result |-> {},
          sessions |-> [u \in (DOMAIN sessions) \ {userId} |-> sessions[u]]]

\* A session object is a function from its property names to their values.
\* getUserSession(userId): the value returned (a set holding the session, or
\* the empty set for null) and the map after the call.
getUserSession(sessions, userId, t) ==
  IF userId \in DOMAIN sessions /\ t - sessions[userId].timestamp < sessionTimeout
    THEN [result |-> {sessions[userId]}, sessions |-> sessions]
    ELSE [result |-> {},
          sessions |-> [u \in (DOMAIN sessions) \ {userId} |-> sessions[u]]]

\* setUserSession that spreads the stored session before the new data:
\* { ...old, ...data, timestamp: Date.now() }.
setUserSession_merge(sessions, userId, data, t) ==
  LET old == IF userId \in DOMAIN sessions THEN sessions[userId] ELSE <<>>
      obj == [f \in (DOMAIN old) \cup (DOMAIN data) \cup {"timestamp"} |->
                IF f = "timestamp" THEN t
                ELSE IF f \in DOMAIN data THEN data[f] ELSE old[f]]
  IN [u \in (DOMAIN sessions) \cup {userId} |->
        IF u = userId THEN obj ELSE sessions[u]]

\* setUserSession(userId, data): { ...data, timestamp: Date.now() }.
setUserSession(sessions, userId, data, t) ==
  LET obj == [f \in (DOMAIN data) \cup {"timestamp"} |->
                IF f = "timestamp" THEN t ELSE data[f]]
  IN [u \in (DOMAIN sessions) \cup {userId} |->
        IF u = userId THEN obj ELSE sessions[u]]

\* cleanupExpiredSessions with the subtraction the wrong way round.
cleanupExpiredSessions_reversed(sessions, t) ==
  LET kept == {u \in DOMAIN sessions : ~(sessions[u].timestamp - t > sessionTimeout)}
  IN [u \in kept |-> sessions[u]]

\* cleanupExpiredSessions(): deletes every session with now - timestamp > timeout.
cleanupExpiredSessions(sessions, t) ==
  LET kept == {u \in DOMAIN sessions : ~(t - sessions[u].timestamp > sessionTimeout)}
  IN [u \in kept |-> sessions[u]]

\* ------------------------------------------------------ response pipeline
\* What the providers do while one message is handled:
\*   raised   an exception leaves the try block of the worker's loop body;
\*   thrown   an exception is thrown inside processMessageDirect's try block;
\*   primary  the source enhancedMessageAnalysis prefers;
\*   docs / sheets  the confidence of the match findBestAnswerWithAI returns for
\*            that source, or -1 when it returns null;
\*   gen      whether generateAIResponse obtains a text from Gemini.
DocsConfidences == {-1, docsThreshold, docsThreshold + 1}
SheetsConfidences == {-1, sheetsThreshold, sheetsThreshold + 1}
Envs == [raised : BOOLEAN, thrown : BOOLEAN, primary : {"docs", "sheets"},
         docs : DocsConfidences, sheets : SheetsConfidences, gen : BOOLEAN]

\* generateAIResponse followed by formatResponse(aiResponse, 'ai').
generateAIResponse(env) == IF env.gen THEN AiAnswer ELSE DefaultResponse

\* processMessageDirect without the isInitialized test.
processMessageDirect_ignoresInit(init, env) ==
  IF env.thrown THEN ErrorDefault
  ELSE IF env.primary = "docs" /\ env.docs > docsThreshold THEN DocsAnswer
  ELSE IF env.sheets > sheetsThreshold THEN SheetsAnswer
  ELSE IF env.primary # "docs" /\ env.docs > docsThreshold THEN DocsAnswer
  ELSE generateAIResponse(env)

\* processMessageDirect(userId, userMessage): the string it returns.  `init` is
\* this.isInitialized as read on entry.
processMessageDirect(init, env) ==
  IF ~init THEN StartupDefault
  ELSE IF env.thrown THEN ErrorDefault
  ELSE IF env.primary = "docs" /\ env.docs > docsThreshold THEN DocsAnswer
  ELSE IF env.sheets > sheetsThreshold THEN SheetsAnswer
  ELSE IF env.primary # "docs" /\ env.docs > docsThreshold THEN DocsAnswer
  ELSE generateAIResponse(env)

\* The try block of the worker's loop body: the value processMessageDirect
\* returned, or the exception that left the block.
Orchestrate(item, env) ==
  IF env.raised THEN [kind |-> "raised", value |-> TechnicalError]
  ELSE [kind |-> "returned", value |-> processMessageDirect(item.init, env)]

\* Every outcome the providers can give the handling of `item`.
Outcomes(item) == {Orchestrate(item, env) : env \in Envs}

\* resolve(response) in the try block, reject(error) in the catch block.
SettleFuture(outcome) ==
  IF outcome.kind = "returned" THEN [state |-> "resolved", value |-> outcome.value]
  ELSE [state |-> "rejected", value |-> outcome.value]

\* processMessage without its try / catch: a rejection reaches the caller.
processMessageReturn_noCatch(future) == future

\* processMessage: return await this.addToQueue(...) inside try / catch.
processMessageReturn(future) ==
  IF future.state = "rejected" THEN [state |-> "resolved", value |-> SystemErrorApology]
  ELSE future

\* ------------------------------------------------------- request sequencer
QueueIds == {messageQueue[i].id : i \in 1..Len(messageQueue)}
FlightIds == {x.id : x \in inFlight}
InvokedIds == {invoked[i] : i \in 1..Len(invoked)}

\* The size check written with > instead of >=.
QueueFull_strict(q) == Len(q) > maxQueueSize

\* this.messageQueue.length >= this.maxQueueSize
QueueFull(q) == Len(q) >= maxQueueSize

\* pop() in place of shift(): the newest item is taken first.
Shift_pop(q) == [item |-> q[Len(q)], rest |-> SubSeq(q, 1, Len(q) - 1)]

\* this.messageQueue.shift()
Shift(q) == [item |-> Head(q), rest |-> Tail(q)]

\* A loop that ends while one item is still queued.
DrainLoop_leavesLast(q, proc, flight, w) ==
  IF Len(q) > 1
    THEN LET s == Shift(q) IN
         /\ messageQueue' = s.rest
         /\ inFlight' = flight \cup {[id |-> s.item.id, userId |-> s.item.userId,
                                      message |-> s.item.message,
                                      init |-> isInitialized]}
         /\ invoked' = Append(invoked, s.item.id)
         /\ isProcessing' = proc
         /\ workers' = w
    ELSE /\ messageQueue' = q
         /\ inFlight' = flight
         /\ invoked' = invoked
         /\ isProcessing' = FALSE
         /\ workers' = w - 1

\* The while loop of processMessageQueue from its test to the next suspension:
\* either it shifts the next item and calls processMessageDirect, which runs to
\* its first await, or it leaves the loop and clears isProcessing.
DrainLoop(q, proc, flight, w) ==
  IF Len(q) > 0
    THEN LET s == Shift(q) IN
         /\ messageQueue' = s.rest
         /\ inFlight' = flight \cup {[id |-> s.item.id, userId |-> s.item.userId,
                                      message |-> s.item.message,
                                      init |-> isInitialized]}
         /\ invoked' = Append(invoked, s.item.id)
         /\ isProcessing' = proc
         /\ workers' = w
    ELSE /\ messageQueue' = q
         /\ inFlight' = flight
         /\ invoked' = invoked
         /\ isProcessing' = FALSE
         /\ workers' = w - 1

\* processMessageQueue() that neither tests nor sets the isProcessing flag.
processMessageQueue_noFlag(q) == DrainLoop(q, isProcessing, inFlight, workers + 1)

\* processMessageQueue(), called with q as the queue: the guard, the flag, and
\* the loop up to the first await.
processMessageQueue(q) ==
  IF isProcessing
    THEN /\ messageQueue' = q
         /\ UNCHANGED <<isProcessing, workers, inFlight, invoked>>
    ELSE DrainLoop(q, TRUE, inFlight, workers + 1)

\* A worker whose try / catch encloses the loop: an exception ends the loop
\* and the flag is never cleared.
AfterSettle_stopOnError(outcome, q, proc, flight, w) ==
  IF outcome.kind = "raised"
    THEN /\ messageQueue' = q
         /\ inFlight' = flight
         /\ invoked' = invoked
         /\ isProcessing' = proc
         /\ workers' = w - 1
    ELSE DrainLoop(q, proc, flight, w)

\* What the worker does once the await of processMessageDirect is over and the
\* promise is settled: back to the loop test, whatever the outcome was.
AfterSettle(outcome, q, proc, flight, w) == DrainLoop(q, proc, flight, w)

\* addToQueue without the queue-size check.
addToQueue_noCheck(id, userId, message) ==
  LET q == Append(messageQueue, [id |-> id, userId |-> userId, message |-> message]) IN
  /\ shed' = shed
  /\ pending' = pending \cup {id}
  /\ IF ~isProcessing
       THEN processMessageQueue(q)
       ELSE /\ messageQueue' = q
            /\ UNCHANGED <<isProcessing, workers, inFlight, invoked>>

\* addToQueue(userId, message): the promise executor.
addToQueue(id, userId, message) ==
  IF QueueFull(messageQueue)
    THEN /\ shed' = shed \cup {id}
         /\ UNCHANGED <<messageQueue, isProcessing, workers, inFlight, invoked, pending>>
    ELSE LET q == Append(messageQueue, [id |-> id, userId |-> userId, message |-> message]) IN
         /\ shed' = shed
         /\ pending' = pending \cup {id}
         /\ IF ~isProcessing
              THEN processMessageQueue(q)
              ELSE /\ messageQueue' = q
                   /\ UNCHANGED <<isProcessing, workers, inFlight, invoked>>

\* ------------------------------------------------------ GoogleDocsService
\* Bounds of the document-store model.
MaxClock == 4
MaxFetches == 3
\* this.cacheExpiry: one minute, in 30-second units.
cacheExpiry == 2

\* null, for contentCache; cacheTimestamp holds NoTimestamp for null.
Null == "NULL"
NoTimestamp == -1
\* The texts extractTextFromDocument can give: an empty document gives ''.
Contents == {"", "doc1", "doc2"}
\* The parties that call getDocumentContent: a user request being processed
\* and the auto-refresh timer (refreshData -> loadBotPersonality ->
\* getBotPersonality).
Callers == {"user", "timer"}

\* JavaScript truthiness of contentCache and of cacheTimestamp.
TruthyText(x) == x # Null /\ x # ""
TruthyTime(t) == t # NoTimestamp /\ t # 0

\* The cache test of getDocumentContent: !forceRefresh && this.contentCache &&
\* this.cacheTimestamp && (Date.now() - this.cacheTimestamp) < this.cacheExpiry
CacheValid(forceRefresh, cache, stamp, t) ==
  /\ ~forceRefresh
  /\ TruthyText(cache)
  /\ TruthyTime(stamp)
  /\ t - stamp < cacheExpiry

\* The lock test without the lock: a fetch is started whenever the cache does
\* not answer.
LoadInProgress_noLock(loading, promise) == FALSE

\* The lock test of getDocumentContent: this.isLoading && this.loadingPromise
LoadInProgress(loading, promise) == loading /\ promise # 0

\* Fetches whose provider call has not come back.
PendingFetches == {i \in 1..Len(fetches) : fetches[i].state = "pending"}

Idle == [state |-> "idle"]

\* What an awaited promise hands to the caller that awaited it.
Settled(promise) ==
  IF promise.state = "fulfilled" THEN [kind |-> "returned", value |-> promise.value]
  ELSE [kind |-> "raised", value |-> TechnicalError]

\* The state the GoogleDocsService constructor leaves.
DocsInit ==
  /\ clock = 1
  /\ docsClient = "null"
  /\ contentCache = Null
  /\ cacheTimestamp = NoTimestamp
  /\ isLoading = FALSE
  /\ loadingPromise = 0
  /\ fetches = <<>>
  /\ calls = [c \in Callers |-> Idle]

\* GoogleDocsService.initialize() succeeds: this.docs is the API client.  When
\* it fails this.docs stays null.
DocsInitialize ==
  /\ docsClient = "null"
  /\ docsClient' = "client"
  /\ last' = [op |-> "docsInitialize"]
  /\ UNCHANGED <<clock, contentCache, cacheTimestamp, isLoading, loadingPromise,
                 fetches, calls>>
  /\ UNCHANGED nonDocsVars

\* Thirty seconds pass.
ClockTick ==
  /\ clock < MaxClock
  /\ clock' = clock + 1
  /\ last' = [op |-> "clockTick"]
  /\ UNCHANGED <<docsClient, contentCache, cacheTimestamp, isLoading,
                 loadingPromise, fetches, calls>>
  /\ UNCHANGED nonDocsVars

\* getDocumentContent(forceRefresh) called by `caller`, up to its return, its
\* throw or its first await.  A started fetch runs _loadDocumentContent up to
\* its await of the provider call.
getDocumentContent(caller, forceRefresh) ==
  /\ calls[caller] = Idle
  /\ LET seen == [op |-> "getDocumentContent", caller |-> caller,
                  forceRefresh |-> forceRefresh, pendingBefore |-> PendingFetches]
     IN
     IF docsClient = "null" THEN
       /\ last' = [path |-> "uninitialized", promise |-> 0,
                   outcome |-> [kind |-> "raised", value |-> TechnicalError]] @@ seen
       /\ UNCHANGED docsVars
     ELSE IF CacheValid(forceRefresh, contentCache, cacheTimestamp, clock) THEN
       /\ last' = [path |-> "cached", promise |-> 0,
                   outcome |-> [kind |-> "returned", value |-> contentCache]] @@ seen
       /\ UNCHANGED docsVars
     ELSE IF LoadInProgress(isLoading, loadingPromise) THEN
       /\ calls' = [calls EXCEPT ![caller] =
                      [state |-> "waiting", promise |-> loadingPromise, owner |-> FALSE]]
       /\ last' = [path |-> "wait", promise |-> loadingPromise,
                   outcome |-> [kind |-> "pending", value |-> "-"]] @@ seen
       /\ UNCHANGED <<clock, docsClient, contentCache, cacheTimestamp, isLoading,
                      loadingPromise, fetches>>
     ELSE
       /\ Len(fetches) < MaxFetches
       /\ isLoading' = TRUE
       /\ fetches' = Append(fetches, [state |-> "pending", value |-> "-"])
       /\ loadingPromise' = Len(fetches) + 1
       /\ calls' = [calls EXCEPT ![caller] =
                      [state |-> "waiting", promise |-> Len(fetches) + 1, owner |-> TRUE]]
       /\ last' = [path |-> "fetch", promise |-> Len(fetches) + 1,
                   outcome |-> [kind |-> "pending", value |-> "-"]] @@ seen
       /\ UNCHANGED <<clock, docsClient, contentCache, cacheTimestamp>>
  /\ UNCHANGED nonDocsVars

\* _loadDocumentContent after its await: the provider returned the document;
\* the text and its time are cached and the promise is fulfilled.
LoadSucceeds(id, content) ==
  /\ id \in PendingFetches
  /\ contentCache' = content
  /\ cacheTimestamp' = clock
  /\ fetches' = [fetches EXCEPT ![id] = [state |-> "fulfilled", value |-> content]]
  /\ last' = [op |-> "loadSucceeds", promise |-> id,
              cacheBefore |-> contentCache, stampBefore |-> cacheTimestamp]
  /\ UNCHANGED <<clock, docsClient, isLoading, loadingPromise, calls>>
  /\ UNCHANGED nonDocsVars

\* _loadDocumentContent after its await: the provider call failed; the error is
\* logged and thrown again.
LoadFails(id) ==
  /\ id \in PendingFetches
  /\ fetches' = [fetches EXCEPT ![id] = [state |-> "rejected", value |-> TechnicalError]]
  /\ last' = [op |-> "loadFails", promise |-> id,
              cacheBefore |-> contentCache, stampBefore |-> cacheTimestamp]
  /\ UNCHANGED <<clock, docsClient, contentCache, cacheTimestamp, isLoading,
                 loadingPromise, calls>>
  /\ UNCHANGED nonDocsVars

\* ResumeCall with the lock released only after a successful load.
ResumeCall_noFinally(caller) ==
  /\ calls[caller].state = "waiting"
  /\ fetches[calls[caller].promise].state # "pending"
  /\ calls' = [calls EXCEPT ![caller] = Idle]
  /\ IF calls[caller].owner /\ fetches[calls[caller].promise].state = "fulfilled"
       THEN isLoading' = FALSE /\ loadingPromise' = 0
       ELSE UNCHANGED <<isLoading, loadingPromise>>
  /\ last' = [op |-> "resumeCall", caller |-> caller, owner |-> calls[caller].owner,
              promise |-> calls[caller].promise,
              outcome |-> Settled(fetches[calls[caller].promise])]
  /\ UNCHANGED <<clock, docsClient, contentCache, cacheTimestamp, fetches>>
  /\ UNCHANGED nonDocsVars

\* getDocumentContent resumes after its await of the loading promise.  The
\* caller that started the fetch runs the finally block.
ResumeCall(caller) ==
  /\ calls[caller].state = "waiting"
  /\ fetches[calls[caller].promise].state # "pending"
  /\ calls' = [calls EXCEPT ![caller] = Idle]
  /\ IF calls[caller].owner
       THEN isLoading' = FALSE /\ loadingPromise' = 0
       ELSE UNCHANGED <<isLoading, loadingPromise>>
  /\ last' = [op |-> "resumeCall", caller |-> caller, owner |-> calls[caller].owner,
              promise |-> calls[caller].promise,
              outcome |-> Settled(fetches[calls[caller].promise])]
  /\ UNCHANGED <<clock, docsClient, contentCache, cacheTimestamp, fetches>>
  /\ UNCHANGED nonDocsVars

\* ------------------------------------------------------------------ texts
\* The texts that are formatted are sequences of UTF-16 code units, each
\* written as a string: an ASCII character as itself, any other unit as "U"
\* followed by its four hexadecimal digits (the grave accent too, "U0060").
AsciiChars ==
  {" ", "!", "\"", "#", "$", "%", "&", "'", "(", ")", "*", "+", ",", "-",
   ".", "/", "0", "1", "2", "3", "4", "5", "6", "7", "8", "9", ":", ";",
   "<", "=", ">", "?", "@", "A", "B", "C", "D", "E", "F", "G", "H", "I",
   "J", "K", "L", "M", "N", "O", "P", "Q", "R", "S", "T", "U", "V", "W",
   "X", "Y", "Z", "[", "\\", "]", "^", "_", "U0060", "a", "b", "c", "d",
   "e", "f", "g", "h", "i", "j", "k", "l", "m", "n", "o", "p", "q", "r",
   "s", "t", "u", "v", "w", "x", "y", "z", "{", "|", "}", "~"}
\* The Thai block of the regular expressions, \u0E00-\u0E7F.
ThaiBlock ==
  {"U0E00", "U0E01", "U0E02", "U0E03", "U0E04", "U0E05", "U0E06", "U0E07",
   "U0E08", "U0E09", "U0E0A", "U0E0B", "U0E0C", "U0E0D", "U0E0E", "U0E0F",
   "U0E10", "U0E11", "U0E12", "U0E13", "U0E14", "U0E15", "U0E16", "U0E17",
   "U0E18", "U0E19", "U0E1A", "U0E1B", "U0E1C", "U0E1D", "U0E1E", "U0E1F",
   "U0E20", "U0E21", "U0E22", "U0E23", "U0E24", "U0E25", "U0E26", "U0E27",
   "U0E28", "U0E29", "U0E2A", "U0E2B", "U0E2C", "U0E2D", "U0E2E", "U0E2F",
   "U0E30", "U0E31", "U0E32", "U0E33", "U0E34", "U0E35", "U0E36", "U0E37",
   "U0E38", "U0E39", "U0E3A", "U0E3B", "U0E3C", "U0E3D", "U0E3E", "U0E3F",
   "U0E40", "U0E41", "U0E42", "U0E43", "U0E44", "U0E45", "U0E46", "U0E47",
   "U0E48", "U0E49", "U0E4A", "U0E4B", "U0E4C", "U0E4D", "U0E4E", "U0E4F",
   "U0E50", "U0E51", "U0E52", "U0E53", "U0E54", "U0E55", "U0E56", "U0E57",
   "U0E58", "U0E59", "U0E5A", "U0E5B", "U0E5C", "U0E5D", "U0E5E", "U0E5F",
   "U0E60", "U0E61", "U0E62", "U0E63", "U0E64", "U0E65", "U0E66", "U0E67",
   "U0E68", "U0E69", "U0E6A", "U0E6B", "U0E6C", "U0E6D", "U0E6E", "U0E6F",
   "U0E70", "U0E71", "U0E72", "U0E73", "U0E74", "U0E75", "U0E76", "U0E77",
   "U0E78", "U0E79", "U0E7A", "U0E7B", "U0E7C", "U0E7D", "U0E7E", "U0E7F"}
\* The bullet and the two halves of the smiling face of the closing line.
OtherUnits == {"U2022", "UD83D", "UDE0A"}
\* \s
WhiteSpace == {" ", "\n", "\t"}
Chars == AsciiChars \cup ThaiBlock \cup OtherUnits \cup {"\n", "\t"}

Digits ==
  {"0", "1", "2", "3", "4", "5", "6", "7", "8", "9"}
LatinLetters ==
  {"a", "b", "c", "d", "e", "f", "g", "h", "i", "j", "k", "l", "m", "n",
   "o", "p", "q", "r", "s", "t", "u", "v", "w", "x", "y", "z", "A", "B",
   "C", "D", "E", "F", "G", "H", "I", "J", "K", "L", "M", "N", "O", "P",
   "Q", "R", "S", "T", "U", "V", "W", "X", "Y", "Z"}
\* [A-Za-z\u0E00-\u0E7F]
Letters == LatinLetters \cup ThaiBlock
\* [.!?]
Punct == {".", "!", "?"}
\* [^.!?]
NotPunct == Chars \ Punct
\* the dot of a regular expression: anything but a line terminator
Dot == Chars \ {"\n"}
\* [a-zA-Z0-9._%+-] and [a-zA-Z0-9.-]
EmailLocal == LatinLetters \cup Digits \cup {".", "_", "%", "+", "-"}
EmailDomain == LatinLetters \cup Digits \cup {".", "-"}

\* ----------------------------------------------------- regular expressions
\* Body applied to a value that is computed once, as a statement of the code
\* computes the value it assigns.
Bind(value, Body(_)) == CHOOSE result \in {Body(x) : x \in {value}} : TRUE

\* A regular expression is a sequence of items: a character class with the
\* bounds of its repetition, greedy or lazy, a literal text, or an anchor.  A
\* max of -1 is no upper bound.
Rep(set, min, max) ==
  <<[kind |-> "chars", set |-> set, min |-> min, max |-> max, lazy |-> FALSE]>>
One(set) == Rep(set, 1, 1)
Star(set) == Rep(set, 0, -1)
Plus(set) == Rep(set, 1, -1)
Opt(set) == Rep(set, 0, 1)
LazyStar(set) ==
  <<[kind |-> "chars", set |-> set, min |-> 0, max |-> -1, lazy |-> TRUE]>>
Anchor(kind) == <<[kind |-> kind]>>
\* ^ and $ without the m flag, ^ and $ with it
Bos == Anchor("bos")
Eos == Anchor("eos")
Bol == Anchor("bol")
Eol == Anchor("eol")
\* a literal text; with the i flag a letter stands for both of its cases
Lit(t) == <<[kind |-> "text", text |-> t, ignoreCase |-> FALSE]>>
LitI(t) == <<[kind |-> "text", text |-> t, ignoreCase |-> TRUE]>>
UpperOf(c) ==
  IF c = "a" THEN "A" ELSE IF c = "i" THEN "I" ELSE IF c = "k" THEN "K"
  ELSE IF c = "e" THEN "E" ELSE IF c = "y" THEN "Y" ELSE IF c = "w" THEN "W"
  ELSE IF c = "o" THEN "O" ELSE IF c = "r" THEN "R" ELSE IF c = "d" THEN "D"
  ELSE IF c = "f" THEN "F" ELSE IF c = "l" THEN "L" ELSE IF c = "b" THEN "B"
  ELSE IF c = "c" THEN "C" ELSE IF c = "u" THEN "U" ELSE IF c = "g" THEN "G"
  ELSE c

\* Whether the anchor holds at position i of s (i is the index of the next
\* character, Len(s) + 1 at the end).
AnchorHolds(kind, s, i) ==
  CASE kind = "bos" -> i = 1
    [] kind = "eos" -> i = Len(s) + 1
    [] kind = "bol" -> i = 1 \/ s[i - 1] = "\n"
    [] kind = "eol" -> i = Len(s) + 1 \/ s[i] = "\n"

\* Whether the literal text t stands at position i of s.
TextAt(s, i, t, ignoreCase) ==
  /\ i + Len(t) - 1 <= Len(s)
  /\ \A j \in 1..Len(t) :
       \/ s[i + j - 1] = t[j]
       \/ ignoreCase /\ s[i + j - 1] = UpperOf(t[j])

\* The number of characters of `set` that follow from position i, at most max
\* of them (any number when max is -1).
RunLength(s, i, set, max) ==
  CHOOSE n \in 0..(IF max >= 0 /\ max < Len(s) + 1 - i THEN max ELSE Len(s) + 1 - i) :
    /\ n = max \/ i + n = Len(s) + 1 \/ s[i + n] \notin set
    /\ \A m \in 0..(n - 1) : s[i + m] \in set

\* A replacement is a sequence of literal texts and of groups; a group is the
\* text matched by items a..b of the expression.
Text(t) == <<[kind |-> "text", text |-> t, a |-> 0, b |-> 0]>>
Group(a, b) == <<[kind |-> "group", text |-> <<>>, a |-> a, b |-> b]>>

\* The replacement for a match at position i, `ends` being the position after
\* each item of the expression.
RECURSIVE Substitute(_, _, _, _)
Substitute(replacement, s, i, ends) ==
  IF replacement = <<>> THEN <<>>
  ELSE LET r == Head(replacement)
           from == IF r.a = 1 THEN i ELSE ends[r.a - 1]
       IN (IF r.kind = "text" THEN r.text ELSE SubSeq(s, from, ends[r.b] - 1))
          \o Substitute(Tail(replacement), s, i, ends)

\* The matches of p in s as a backtracking matcher finds them: for every
\* position j where p matches, the pair of j and of the position after each
\* item of p.  MatchFrom[k, i] is the match of items k.. of p at position i:
\* the set of its list of positions, empty when there is no match.  A repeated
\* class takes the largest number of characters (the smallest, when lazy) with
\* which the rest of the expression matches.
Matches(s, p) ==
  LET MatchFrom[k \in 1..(Len(p) + 1), i \in 1..(Len(s) + 1)] ==
        IF k > Len(p) THEN {<<>>}
        ELSE IF p[k].kind = "text"
          THEN IF TextAt(s, i, p[k].text, p[k].ignoreCase)
                 THEN {<<i + Len(p[k].text)>> \o e : e \in MatchFrom[k + 1, i + Len(p[k].text)]}
                 ELSE {}
        ELSE IF p[k].kind # "chars"
          THEN IF AnchorHolds(p[k].kind, s, i)
                 THEN {<<i>> \o e : e \in MatchFrom[k + 1, i]}
                 ELSE {}
        ELSE UNION {{<<i + t[1]>> \o t[2] :
                       t \in {c \in found : \A u \in found :
                                IF p[k].lazy THEN c[1] <= u[1] ELSE c[1] >= u[1]}} :
                    found \in {UNION {{<<n, e>> : e \in MatchFrom[k + 1, i + n]} :
                                      n \in p[k].min..RunLength(s, i, p[k].set, p[k].max)}}}
  IN UNION {{<<j, e>> : e \in MatchFrom[1, j]} : j \in 1..(Len(s) + 1)}

\* The position after a match.
EndOf(m) == m[2][Len(m[2])]

\* String.prototype.replace(regexp, replacement), `matches` being the matches
\* of the expression in s: every match with the g flag, scanning on after
\* each one, and the first one without it.
Replace(s, matches, replacement, global) ==
  LET ReplaceFrom[i \in 1..(Len(s) + 2)] ==
        IF \A t \in matches : t[1] < i THEN SubSeq(s, i, Len(s))
        ELSE CHOOSE out \in
               {SubSeq(s, i, m[1] - 1) \o Substitute(replacement, s, m[1], m[2]) \o
                (IF ~global THEN SubSeq(s, EndOf(m), Len(s))
                 ELSE IF EndOf(m) > m[1] THEN ReplaceFrom[EndOf(m)]
                 ELSE IF m[1] > Len(s) THEN <<>>
                 ELSE <<s[m[1]]>> \o ReplaceFrom[m[1] + 1]) :
                m \in {t \in matches :
                        /\ t[1] >= i
                        /\ \A u \in matches : u[1] >= i => t[1] <= u[1]}} : TRUE
  IN ReplaceFrom[1]
replaceWith(s, p, replacement, global) ==
  Bind(<<s, p, replacement>>,
       LAMBDA a : Bind(Matches(a[1], a[2]),
                       LAMBDA matches : Replace(a[1], matches, a[3], global)))
replaceAll(s, p, replacement) == replaceWith(s, p, replacement, TRUE)
replaceFirst(s, p, replacement) == replaceWith(s, p, replacement, FALSE)

\* String.prototype.endsWith
endsWith(s, t) ==
  Bind(s, LAMBDA x : Len(x) >= Len(t) /\ SubSeq(x, Len(x) - Len(t) + 1, Len(x)) = t)

\* ---------------------------------------------------- GoogleSheetsService
\* Strings that take part in matching are sequences of one-character strings.
\* String.prototype.toLowerCase
LowerChar(c) == IF c = "A" THEN "a" ELSE IF c = "B" THEN "b" ELSE c
toLowerCase(s) == [i \in 1..Len(s) |-> LowerChar(s[i])]

\* String.prototype.trim
trimStart(s) ==
  Bind(s, LAMBDA x :
    SubSeq(x, CHOOSE j \in 1..(Len(x) + 1) :
                /\ j = Len(x) + 1 \/ x[j] \notin WhiteSpace
                /\ \A m \in 1..(j - 1) : x[m] \in WhiteSpace,
           Len(x)))
trimEnd(s) ==
  Bind(s, LAMBDA x :
    SubSeq(x, 1, CHOOSE j \in 0..Len(x) :
                   /\ j = 0 \/ x[j] \notin WhiteSpace
                   /\ \A m \in (j + 1)..Len(x) : x[m] \in WhiteSpace))
trim(s) == trimEnd(trimStart(s))

\* String.prototype.includes
includes(s, t) ==
  Bind(<<s, t>>, LAMBDA a : \E i \in 0..(Len(a[1]) - Len(a[2])) :
                             SubSeq(a[1], i + 1, i + Len(a[2])) = a[2])

\* split(/\s+/) of a trimmed string: its words; [''] for the empty string.
RECURSIVE splitFrom(_, _, _)
splitFrom(s, word, words) ==
  IF s = <<>> THEN (IF word = <<>> THEN words ELSE Append(words, word))
  ELSE IF Head(s) = " "
    THEN splitFrom(Tail(s), <<>>, IF word = <<>> THEN words ELSE Append(words, word))
    ELSE splitFrom(Tail(s), Append(word, Head(s)), words)
split(s) == IF s = <<>> THEN << <<>> >> ELSE splitFrom(s, <<>>, <<>>)

Min2(a, b) == IF a <= b THEN a ELSE b
Max2(a, b) == IF a >= b THEN a ELSE b

\* levenshteinDistance(str1, str2)
RECURSIVE levenshteinDistance(_, _)
levenshteinDistance(a, b) ==
  IF a = <<>> THEN Len(b)
  ELSE IF b = <<>> THEN Len(a)
  ELSE IF Head(a) = Head(b) THEN levenshteinDistance(Tail(a), Tail(b))
  ELSE 1 + Min2(levenshteinDistance(Tail(a), Tail(b)),
                Min2(levenshteinDistance(a, Tail(b)), levenshteinDistance(Tail(a), b)))

\* Scores and thresholds are fractions num / den.
Score(n, d) == [num |-> n, den |-> d]
ScoreGE(x, y) == x.num * y.den >= y.num * x.den
ScoreGT(x, y) == x.num * y.den > y.num * x.den

\* calculateSimilarity(str1, str2)
calculateSimilarity(str1, str2) ==
  IF str1 = <<>> \/ str2 = <<>> THEN Score(0, 1)
  ELSE LET longer == IF Len(str1) > Len(str2) THEN str1 ELSE str2
           shorter == IF Len(str1) > Len(str2) THEN str2 ELSE str1
       IN Score(Len(longer) - levenshteinDistance(longer, shorter), Len(longer))

\* The contact terms of the fourth pass.  The source's terms ('email',
\* 'phone', 'contact' and their Thai forms) are stood for by one character
\* each: "e", "p" and "c".
emailTerms == {<<"e">>}
emailKeywordTerms == {<<"e">>}
phoneTerms == {<<"p">>}
phoneKeywordTerms == {<<"p">>}
contactTerms == {<<"c">>}

NoMatch == [matchType |-> "none"]
Match(item, score, matchType) ==
  [matchType |-> matchType, keyword |-> item.originalKeyword,
   answer |-> item.answer, score |-> score]

\* keyword = item.keyword.toLowerCase().trim()
KeywordOf(item) == trim(toLowerCase(item.keyword))
\* The items the loops do not skip: if (!item.keyword) continue
Usable(data) == {i \in 1..Len(data) : data[i].keyword # <<>>}
First(S) == CHOOSE i \in S : \A j \in S : i <= j

\* First pass: the first item whose keyword equals the message, contains it
\* or is contained in it.
firstPass(data, message) ==
  LET hits == {i \in Usable(data) :
                 \/ message = KeywordOf(data[i])
                 \/ includes(message, KeywordOf(data[i]))
                 \/ includes(KeywordOf(data[i]), message)}
  IN IF hits = {} THEN NoMatch
     ELSE IF message = KeywordOf(data[First(hits)])
       THEN Match(data[First(hits)], Score(1, 1), "exact")
       ELSE Match(data[First(hits)], Score(9, 10), "partial")

\* matchCount / totalWords of the second pass.
wordScore(messageWords, keywordWords) ==
  LET matched == {m \in 1..Len(messageWords) :
                    \E k \in 1..Len(keywordWords) :
                      \/ messageWords[m] = keywordWords[k]
                      \/ includes(messageWords[m], keywordWords[k])
                      \/ includes(keywordWords[k], messageWords[m])}
  IN Score(Cardinality(matched), Max2(Len(messageWords), Len(keywordWords)))

\* Second pass with the threshold test left out.
RECURSIVE secondPass_noThreshold(_, _, _, _, _)
secondPass_noThreshold(data, messageWords, threshold, i, best) ==
  IF i > Len(data) THEN best
  ELSE IF data[i].keyword = <<>>
    THEN secondPass_noThreshold(data, messageWords, threshold, i + 1, best)
  ELSE LET score == wordScore(messageWords, split(KeywordOf(data[i])))
           bestScore == IF best = NoMatch THEN Score(0, 1) ELSE best.score
       IN IF ScoreGT(score, bestScore)
            THEN secondPass_noThreshold(data, messageWords, threshold, i + 1,
                                        Match(data[i], score, "word_match"))
            ELSE secondPass_noThreshold(data, messageWords, threshold, i + 1, best)

\* Second pass: the best word-by-word score that reaches the threshold.
RECURSIVE secondPass(_, _, _, _, _)
secondPass(data, messageWords, threshold, i, best) ==
  IF i > Len(data) THEN best
  ELSE IF data[i].keyword = <<>>
    THEN secondPass(data, messageWords, threshold, i + 1, best)
  ELSE LET score == wordScore(messageWords, split(KeywordOf(data[i])))
           bestScore == IF best = NoMatch THEN Score(0, 1) ELSE best.score
       IN IF ScoreGE(score, threshold) /\ ScoreGT(score, bestScore)
            THEN secondPass(data, messageWords, threshold, i + 1,
                            Match(data[i], score, "word_match"))
            ELSE secondPass(data, messageWords, threshold, i + 1, best)

\* Third pass: the first item with a keyword word at least 60% similar to a
\* word of the message, scored 0.4.
thirdPass(data, messageWords) ==
  LET hits == {i \in Usable(data) :
                 LET keywordWords == split(KeywordOf(data[i]))
                 IN \E m \in 1..Len(messageWords), k \in 1..Len(keywordWords) :
                      ScoreGE(calculateSimilarity(messageWords[m], keywordWords[k]),
                              Score(6, 10))}
  IN IF hits = {} THEN NoMatch ELSE Match(data[First(hits)], Score(4, 10), "fuzzy")

\* One bucket of the fourth pass: the first item whose keyword holds one of
\* keywordTerms, when the message holds one of messageTerms.
bucket(data, message, messageTerms, keywordTerms, score, matchType) ==
  LET hits == {i \in Usable(data) :
                 \E t \in keywordTerms : includes(KeywordOf(data[i]), t)}
  IN IF (\E t \in messageTerms : includes(message, t)) /\ hits # {}
       THEN Match(data[First(hits)], score, matchType)
       ELSE NoMatch

\* Fourth pass: email, phone and contact requests, in that order.
fourthPass(data, message) ==
  LET email == bucket(data, message, emailTerms, emailKeywordTerms,
                      Score(4, 10), "email_specific")
      phone == bucket(data, message, phoneTerms, phoneKeywordTerms,
                      Score(4, 10), "phone_specific")
      contact == bucket(data, message, contactTerms, contactTerms,
                        Score(3, 10), "contact_term")
  IN IF email # NoMatch THEN email
     ELSE IF phone # NoMatch THEN phone
     ELSE contact

\* findMatchingKeyword(userMessage, threshold)
findMatchingKeyword(data, userMessage, threshold) ==
  IF Len(data) = 0 THEN NoMatch
  ELSE LET message == trim(toLowerCase(userMessage))
           first == firstPass(data, message)
           second == secondPass(data, split(message), threshold, 1, NoMatch)
           third == thirdPass(data, split(message))
       IN IF first # NoMatch THEN first
          ELSE IF second # NoMatch THEN second
          ELSE IF third # NoMatch THEN third
          ELSE fourthPass(data, message)

\* Bounds of the keyword-table model.
MaxRows == 1

\* The provider's side: the sheet titles spreadsheets.get can return ([] is
\* also what getSheetNames returns on an error) and the rows of a page.
SheetTitles == {<<>>, <<"s1">>, <<"s1", "s2">>}
Rows == {[keyword |-> <<"a">>, answer |-> "ans1"],
         [keyword |-> <<"a", "b">>, answer |-> "ans2"],
         [keyword |-> <<>>, answer |-> ""]}
PageRows == UNION {[1..n -> Rows] : n \in 0..MaxRows}
Loaders == {"init", "timer"}
RangeSettings == {"Sheet1!B:C", "ALL_SHEETS"}

\* rows.map((row, index) => ({ id: base + index + 1, keyword: row[0] || '',
\* answer: row[1] || '', originalKeyword: row[0] || '', sheet }))
MakeEntries(rows, base, sheet) ==
  [i \in 1..Len(rows) |->
     [id |-> base + i, keyword |-> rows[i].keyword, answer |-> rows[i].answer,
      originalKeyword |-> rows[i].keyword, sheet |-> sheet]]

\* The collection built from the pages fetched so far: the rows of every page
\* whose fetch succeeded, in page order.
RECURSIVE Collect(_, _)
Collect(pages, acc) ==
  IF pages = <<>> THEN acc
  ELSE IF Head(pages).ok
    THEN Collect(Tail(pages),
                 acc \o MakeEntries(Head(pages).rows, Len(acc), Head(pages).sheet))
    ELSE Collect(Tail(pages), acc)

NotLoading == [pc |-> "idle"]

\* The state the GoogleSheetsService constructor leaves.
SheetsInit ==
  /\ sheetsClient = "null"
  /\ range = "Sheet1!B:C"
  /\ sheetNames = <<>>
  /\ keywordsData = <<>>
  /\ lastUpdate = 0
  /\ loads = [l \in Loaders |-> NotLoading]

\* GoogleSheetsService.initialize() with the range the environment gives:
\* the client is created and the initial loadKeywordsData() starts.
SheetsInitialize(setting) ==
  /\ sheetsClient = "null"
  /\ sheetsClient' = "client"
  /\ range' = setting
  /\ loads' = [loads EXCEPT !["init"] = [pc |-> "names"]]
  /\ last' = [op |-> "sheetsInitialize"]
  /\ UNCHANGED <<sheetNames, keywordsData, lastUpdate>>
  /\ UNCHANGED nonSheetsVars

\* refreshData() -> loadKeywordsData() called by the refresh timer, up to its
\* first await.  Without a client it returns at once.
StartLoad(l) ==
  /\ l = "timer"
  /\ loads[l] = NotLoading
  /\ IF sheetsClient = "null"
       THEN UNCHANGED loads /\ last' = [op |-> "loadSkipped", loader |-> l]
       ELSE /\ loads' = [loads EXCEPT ![l] = [pc |-> "names"]]
            /\ last' = [op |-> "loadStarted", loader |-> l]
  /\ UNCHANGED <<sheetsClient, range, sheetNames, keywordsData, lastUpdate>>
  /\ UNCHANGED nonSheetsVars

\* Publish that leaves the live collection as it was.
Publish_stale(l, pages, collection) ==
  /\ keywordsData' = keywordsData
  /\ lastUpdate' = clock
  /\ loads' = [loads EXCEPT ![l] = NotLoading]
  /\ last' = [op |-> "loadDone", loader |-> l, pages |-> pages,
              loaded |-> collection, before |-> keywordsData]

\* The end of the try block: this.keywordsData = allKeywordsData;
\* this.lastUpdate = new Date().
Publish(l, pages, collection) ==
  /\ keywordsData' = collection
  /\ lastUpdate' = clock
  /\ loads' = [loads EXCEPT ![l] = NotLoading]
  /\ last' = [op |-> "loadDone", loader |-> l, pages |-> pages,
              loaded |-> collection, before |-> keywordsData]

\* NextPage with each page's rows put into the live collection as they come.
NextPage_inPlace(l, names, pages) ==
  IF Len(pages) < Len(names)
    THEN /\ loads' = [loads EXCEPT ![l] = [pc |-> "sheet", names |-> names, pages |-> pages]]
         /\ last' = [op |-> "page", loader |-> l, before |-> keywordsData]
         /\ keywordsData' = Collect(pages, <<>>)
         /\ UNCHANGED lastUpdate
    ELSE Publish(l, pages, Collect(pages, <<>>))

\* The for loop over the sheets after a page was handled: the next page is
\* requested, or the loop ends and the collection is published.
NextPage(l, names, pages) ==
  IF Len(pages) < Len(names)
    THEN /\ loads' = [loads EXCEPT ![l] = [pc |-> "sheet", names |-> names, pages |-> pages]]
         /\ last' = [op |-> "page", loader |-> l, before |-> keywordsData]
         /\ UNCHANGED <<keywordsData, lastUpdate>>
    ELSE Publish(l, pages, Collect(pages, <<>>))

\* getSheetNames() comes back with `names`.  With a range configured the one
\* range is requested; otherwise the loop over the sheets starts.
NamesReturn(l, names) ==
  /\ loads[l].pc = "names"
  /\ sheetNames' = names
  /\ IF range # "ALL_SHEETS"
       THEN /\ loads' = [loads EXCEPT ![l] = [pc |-> "range"]]
            /\ last' = [op |-> "names", loader |-> l, before |-> keywordsData]
            /\ UNCHANGED <<keywordsData, lastUpdate>>
       ELSE NextPage(l, names, <<>>)
  /\ UNCHANGED <<sheetsClient, range>>
  /\ UNCHANGED nonSheetsVars

\* The request for the configured range comes back with `rows`.
RangeReturn(l, rows) ==
  /\ loads[l].pc = "range"
  /\ LET pages == <<[sheet |-> "Sheet1", ok |-> TRUE, rows |-> rows]>>
     IN Publish(l, pages, MakeEntries(rows, 0, "Sheet1"))
  /\ UNCHANGED <<sheetsClient, range, sheetNames>>
  /\ UNCHANGED nonSheetsVars

\* The request for the configured range fails: the outer catch empties the
\* collection.
RangeFails(l) ==
  /\ loads[l].pc = "range"
  /\ keywordsData' = <<>>
  /\ loads' = [loads EXCEPT ![l] = NotLoading]
  /\ last' = [op |-> "loadFailed", loader |-> l, loaded |-> <<>>,
              before |-> keywordsData]
  /\ UNCHANGED <<sheetsClient, range, sheetNames, lastUpdate>>
  /\ UNCHANGED nonSheetsVars

\* The request for the next sheet comes back with `rows`.
SheetReturn(l, rows) ==
  /\ loads[l].pc = "sheet"
  /\ LET names == loads[l].names
         sheet == names[Len(loads[l].pages) + 1]
     IN NextPage(l, names, Append(loads[l].pages,
                                  [sheet |-> sheet, ok |-> TRUE, rows |-> rows]))
  /\ UNCHANGED <<sheetsClient, range, sheetNames>>
  /\ UNCHANGED nonSheetsVars

\* SheetFails with the failure ending the whole refresh in the outer catch.
SheetFails_abort(l) ==
  /\ loads[l].pc = "sheet"
  /\ keywordsData' = <<>>
  /\ loads' = [loads EXCEPT ![l] = NotLoading]
  /\ last' = [op |-> "loadDone", loader |-> l,
              pages |-> Append(loads[l].pages,
                               [sheet |-> loads[l].names[Len(loads[l].pages) + 1],
                                ok |-> FALSE, rows |-> <<>>]),
              loaded |-> <<>>, before |-> keywordsData]
  /\ UNCHANGED <<sheetsClient, range, sheetNames, lastUpdate>>
  /\ UNCHANGED nonSheetsVars

\* The request for the next sheet fails: the inner catch logs it and the loop
\* goes on.
SheetFails(l) ==
  /\ loads[l].pc = "sheet"
  /\ LET names == loads[l].names
         sheet == names[Len(loads[l].pages) + 1]
     IN NextPage(l, names, Append(loads[l].pages,
                                  [sheet |-> sheet, ok |-> FALSE, rows |-> <<>>]))
  /\ UNCHANGED <<sheetsClient, range, sheetNames>>
  /\ UNCHANGED nonSheetsVars

\* A reader between two awaits of a request: getAllKeywords() and the cached
\* document text with its time, as they are at that instant.
ReadSnapshot ==
  /\ last' = [op |-> "read", keywords |-> keywordsData, text |-> contentCache,
              stamp |-> cacheTimestamp]
  /\ UNCHANGED <<chatVars, dataVars>>

\* Bound of the collections findMatchingKeyword is tried on.
MaxEntries == 2

\* Keywords as a sheet can hold them: empty, blank, in upper case, one inside
\* another, close to one another, of two words, and with a contact term.
KeywordPool ==
  {<<>>, <<" ">>, <<"a">>, <<"A">>, <<"a", "b">>, <<"a", "a", "b">>,
   <<"b", " ", "a">>, <<"e", "b">>, <<"p", "b">>, <<"c", "b">>}
MessagePool ==
  {<<>>, <<"a">>, <<"A", " ">>, <<"b">>, <<"a", "b">>, <<"a", "b", "b">>,
   <<"a", " ", "b">>, <<"a", " ", "c", "a">>, <<"e", "a">>, <<"p", "a">>}
KeywordRows == {[keyword |-> k, answer |-> "ans"] : k \in KeywordPool}
Collections ==
  {MakeEntries(rows, 0, "Sheet1") :
     rows \in UNION {[1..n -> KeywordRows] : n \in 1..MaxEntries}}

\* The service with a keyword collection loaded.
LoadedInit ==
  /\ sheetsClient = "client"
  /\ range = "Sheet1!B:C"
  /\ sheetNames = <<"Sheet1">>
  /\ keywordsData \in Collections
  /\ lastUpdate = 1
  /\ loads = [l \in Loaders |-> NotLoading]

\* The thresholds findMatchingKeyword is called with: 0.05, 0.1 and 0.3 by
\* findKeywordMatch, 0.6 by default.
Thresholds == {Score(1, 20), Score(1, 10), Score(3, 10), Score(6, 10)}

\* A reader: findMatchingKeyword(userMessage, threshold) on the live collection.
FindMatch(userMessage, threshold) ==
  /\ last' = [op |-> "find", message |-> userMessage, threshold |-> threshold,
              data |-> keywordsData,
              justLoaded |-> last.op = "loadDone",
              loaded |-> IF last.op = "loadDone" THEN last.loaded ELSE <<>>,
              result |-> findMatchingKeyword(keywordsData, userMessage, threshold)]
  /\ UNCHANGED <<chatVars, dataVars>>

\* ----------------------------------------------------------- GeminiService
\* Bound: the generateResponse calls made in one behaviour.
MaxGenCalls == 3
\* const maxRetries = 3; const retryDelay = 2000
maxRetries == 3
retryDelay == 2000

\* The texts the model can answer with, and the errors a request can end in:
\* one whose message holds '429', and any other.
GenTexts == {"text1", "text2"}
GenErrors == {"429", "other"}

NoCall == [pc |-> "idle"]

\* The state with no generateResponse call made yet.
GeminiInit ==
  /\ genCall = NoCall
  /\ genLog = <<>>

\* How a call ends: what it returned or threw, and what it did on the way.
Ended(call, kind, value) ==
  [kind |-> kind, value |-> value, requests |-> call.requests,
   errors |-> call.errors, waits |-> call.waits]

\* generateResponse(userMessage, context, personality) up to the await of its
\* first request.
generateResponse ==
  /\ genCall = NoCall
  /\ Len(genLog) < MaxGenCalls
  /\ genCall' = [pc |-> "requesting", attempt |-> 1, requests |-> 1,
                 errors |-> <<>>, waits |-> <<>>]
  /\ last' = [op |-> "generateResponse"]
  /\ UNCHANGED genLog
  /\ UNCHANGED nonGenVars

\* The request comes back with a text: return text.trim().
RequestReturns(text) ==
  /\ genCall.pc = "requesting"
  /\ genLog' = Append(genLog, Ended(genCall, "returned", text))
  /\ genCall' = NoCall
  /\ last' = [op |-> "generateDone", outcome |-> Ended(genCall, "returned", text)]
  /\ UNCHANGED nonGenVars

\* The catch block with the attempt limit left out of the quota branch.
onError_noLimit(call, error) ==
  LET seen == [call EXCEPT !.errors = Append(call.errors, error)]
  IN IF error = "429"
       THEN [call |-> [seen EXCEPT !.pc = "waiting",
                                   !.waits = Append(call.waits, retryDelay * call.attempt)],
             ended |-> FALSE]
       ELSE [call |-> NoCall, ended |-> TRUE, outcome |-> Ended(seen, "raised", "other")]

\* The catch block: a quota error before the last attempt waits
\* retryDelay * attempt and continues; a quota error on the last attempt
\* throws 'quota exceeded'; any other error is thrown at once.
onError(call, error) ==
  LET seen == [call EXCEPT !.errors = Append(call.errors, error)]
  IN IF error = "429"
       THEN IF call.attempt < maxRetries
              THEN [call |-> [seen EXCEPT !.pc = "waiting",
                                          !.waits = Append(call.waits,
                                                           retryDelay * call.attempt)],
                    ended |-> FALSE]
              ELSE [call |-> NoCall, ended |-> TRUE,
                    outcome |-> Ended(seen, "raised", "quota")]
       ELSE [call |-> NoCall, ended |-> TRUE, outcome |-> Ended(seen, "raised", "other")]

\* The request fails with `error`.
RequestFails(error) ==
  /\ genCall.pc = "requesting"
  /\ LET next == onError(genCall, error)
     IN /\ genCall' = next.call
        /\ IF next.ended
             THEN /\ genLog' = Append(genLog, next.outcome)
                  /\ last' = [op |-> "generateDone", outcome |-> next.outcome]
             ELSE /\ UNCHANGED genLog
                  /\ last' = [op |-> "generateWaits"]
  /\ UNCHANGED nonGenVars

\* The setTimeout of the backoff fires: the loop continues with the next
\* attempt and its request.
RetryTimer ==
  /\ genCall.pc = "waiting"
  /\ genCall' = [genCall EXCEPT !.pc = "requesting", !.attempt = @ + 1,
                                !.requests = @ + 1]
  /\ last' = [op |-> "generateRetries"]
  /\ UNCHANGED genLog
  /\ UNCHANGED nonGenVars

\* -------------------------------------------------------- message analysis
\* What the message analysis depends on:
\*   classify  how analyzeMessageWithAI's request ends: "json" (a JSON object
\*             with the fields below), "text" (not JSON) or "error";
\*   questionType, intent, isSpecific, isGeneral, confidence
\*             the fields of that JSON object ("" for a missing field);
\*   source    how determineBestDataSource's request ends: the reply
\*             "sheets" or "docs", another reply ("text"), or "error";
\*   nlpThrows whether nlpService.extractKeywords throws.
QuestionTypes == {"general", "contact", "price", ""}
Intents == {"general_inquiry", "ask_price"}
Confidences == {50, 90}
AnalysisInputs ==
  [classify : {"json", "text", "error"}, questionType : QuestionTypes,
   intent : Intents, isSpecific : BOOLEAN, isGeneral : BOOLEAN,
   confidence : Confidences,
   source : {"sheets", "docs", "text", "error"}, nlpThrows : BOOLEAN]

\* fallbackAnalysis(userMessage)
fallbackAnalysis ==
  [questionType |-> "general", intent |-> "general_inquiry", isSpecific |-> FALSE,
   isGeneral |-> TRUE, confidence |-> 50]

\* analyzeMessageWithAI with the fields of the response taken as they come,
\* whether or not it parsed.
analyzeMessageWithAI_noFallback(input) ==
  [questionType |-> input.questionType, intent |-> input.intent,
   isSpecific |-> input.isSpecific, isGeneral |-> input.isGeneral,
   confidence |-> input.confidence]

\* analyzeMessageWithAI(userMessage)
analyzeMessageWithAI(input) ==
  IF input.classify = "json"
    THEN [questionType |-> input.questionType, intent |-> input.intent,
          isSpecific |-> input.isSpecific, isGeneral |-> input.isGeneral,
          confidence |-> input.confidence]
    ELSE fallbackAnalysis

\* determineBestDataSource(userMessage, aiAnalysis)
determineBestDataSource(aiAnalysis, input) ==
  IF input.source \in {"sheets", "docs"} THEN input.source
  ELSE IF aiAnalysis.isSpecific THEN "sheets" ELSE "docs"

\* enhancedMessageAnalysis(userMessage)
enhancedMessageAnalysis(input) ==
  IF input.nlpThrows
    THEN [preferredSource |-> "docs",
          aiAnalysis |-> [questionType |-> "general", intent |-> "unknown",
                          isSpecific |-> FALSE, isGeneral |-> TRUE]]
    ELSE [preferredSource |-> determineBestDataSource(analyzeMessageWithAI(input), input),
          aiAnalysis |-> analyzeMessageWithAI(input)]

\* determinePrimaryDataSource(messageAnalysis)
determinePrimaryDataSource(messageAnalysis) ==
  IF messageAnalysis.preferredSource # "" THEN messageAnalysis.preferredSource
  ELSE IF /\ messageAnalysis.aiAnalysis.questionType = "general"
          /\ messageAnalysis.aiAnalysis.intent = "general_inquiry" THEN "sheets"
  ELSE IF messageAnalysis.aiAnalysis.questionType # "general" THEN "docs"
  ELSE "sheets"

\* No message has been analysed yet.
AnalysisInit ==
  analysisInput = [classify |-> "error", questionType |-> "", intent |-> "general_inquiry",
                   isSpecific |-> FALSE, isGeneral |-> FALSE, confidence |-> 50,
                   source |-> "error", nlpThrows |-> FALSE]

\* Step 1 of processMessageDirect: the analysis of the message and the choice
\* of the primary source.
SelectPrimary ==
  /\ last' = [op |-> "select",
              analysis |-> enhancedMessageAnalysis(analysisInput),
              primarySource |->
                determinePrimaryDataSource(enhancedMessageAnalysis(analysisInput))]
  /\ UNCHANGED <<chatVars, dataVars>>

\* The next message arrives with its own analysis results.
NextMessage(input) ==
  /\ analysisInput' = input
  /\ last' = [op |-> "message"]
  /\ UNCHANGED <<chatVars, docsVars, sheetsVars, genVars, replyVars, edgeVars>>

\* ------------------------------------------------------ response formatting
\* A formatting function is the sequence of its statements, each one a step
\* from a text to a text.
\* formatted = formatted.replace(p, replacement), p with and without the g flag
ReplaceAll(p, replacement) ==
  <<[kind |-> "replace", p |-> p, replacement |-> replacement, global |-> TRUE]>>
ReplaceFirst(p, replacement) ==
  <<[kind |-> "replace", p |-> p, replacement |-> replacement, global |-> FALSE]>>
\* formatted = formatted.trim()
Trim == <<[kind |-> "trim"]>>
\* formatted += text
AppendText(text) == <<[kind |-> "append", text |-> text]>>
\* if (!formatted.includes(marker)) { steps }
UnlessIncludes(marker, steps) ==
  <<[kind |-> "unlessIncludes", marker |-> marker, steps |-> steps]>>
\* if (!text) return text; steps
UnlessEmpty(steps) == <<[kind |-> "unlessEmpty", steps |-> steps]>>
\* if (!formatted.endsWith(e1) && !formatted.endsWith(e2) ...) { steps }
UnlessEndsWith(endings, steps) ==
  <<[kind |-> "unlessEndsWith", endings |-> endings, steps |-> steps]>>

\* The text after one step, and after every step of a function in turn.
RECURSIVE Run(_, _)
Step(t, step) ==
  CASE step.kind = "replace" -> replaceWith(t, step.p, step.replacement, step.global)
    [] step.kind = "trim" -> trim(t)
    [] step.kind = "append" -> t \o step.text
    [] step.kind = "unlessIncludes" ->
         IF includes(t, step.marker) THEN t ELSE Run(t, step.steps)
    [] step.kind = "unlessEmpty" -> IF t = <<>> THEN t ELSE Run(t, step.steps)
    [] step.kind = "unlessEndsWith" ->
         IF \E e \in step.endings : endsWith(t, e) THEN t ELSE Run(t, step.steps)
Run(text, steps) ==
  Bind(<<text, steps>>, LAMBDA a :
    LET run[t \in Seq(Chars), n \in 1..(Len(a[2]) + 1)] ==
          IF n > Len(a[2]) THEN t ELSE run[Step(t, a[2][n]), n + 1]
    IN run[a[1], 1])

\* formatClickableLinks: /(\d{2,3}-\d{3,4}-\d{4})/g
reTel == Rep(Digits, 2, 3) \o Lit(<<"-">>) \o Rep(Digits, 3, 4) \o Lit(<<"-">>)
         \o Rep(Digits, 4, 4)
\* /([a-zA-Z0-9._%+-]+@[a-zA-Z0-9.-]+\.[a-zA-Z]{2,})/g
reEmail == Plus(EmailLocal) \o Lit(<<"@">>) \o Plus(EmailDomain) \o Lit(<<".">>)
           \o Rep(LatinLetters, 2, -1)
\* /(www\.[a-zA-Z0-9.-]+\.[a-zA-Z]{2,})/g
reWww == Lit(<<"w", "w", "w", ".">>) \o Plus(EmailDomain) \o Lit(<<".">>)
         \o Rep(LatinLetters, 2, -1)
\* /(www\.facebook\.com\/[a-zA-Z0-9._-]+)/g
reFacebook ==
  Lit(<<"w", "w", "w", ".", "f", "a", "c", "e", "b", "o", "o", "k", ".", "c",
      "o", "m", "/">>)
  \o Plus(LatinLetters \cup Digits \cup {".", "_", "-"})

\* '[${match}](tel:${match})' and its like
LinkTo(p, scheme) ==
  Text(<<"[">>) \o Group(1, Len(p)) \o Text(<<"]", "(">> \o scheme) \o Group(1, Len(p))
  \o Text(<<")">>)
schemeTel == <<"t", "e", "l", ":">>
schemeMailto == <<"m", "a", "i", "l", "t", "o", ":">>
schemeHttps == <<"h", "t", "t", "p", "s", ":", "/", "/">>
hostFacebook == <<"w", "w", "w", ".", "f", "a", "c", "e", "b", "o", "o", "k", ".", "c",
      "o", "m">>

\* formatClickableLinks(text)
formatClickableLinks ==
  UnlessEmpty(
    UnlessIncludes(<<"]", "(">> \o schemeTel,
                   ReplaceAll(reTel, LinkTo(reTel, schemeTel)))
    \o UnlessIncludes(<<"]", "(">> \o schemeMailto,
                      ReplaceAll(reEmail, LinkTo(reEmail, schemeMailto)))
    \o UnlessIncludes(<<"]", "(">> \o schemeHttps,
                      ReplaceAll(reWww, LinkTo(reWww, schemeHttps)))
    \o UnlessIncludes(<<"]", "(">> \o schemeHttps \o hostFacebook,
                      ReplaceAll(reFacebook, LinkTo(reFacebook, schemeHttps))))

\* /\s+/g -> ' '
collapseWhiteSpace == ReplaceAll(Plus(WhiteSpace), Text(<<" ">>))
\* /([.!?])\s*([\u2022\-\*])\s*/g -> '$1\n\n$2 '
breakBeforeBullet ==
  ReplaceAll(One(Punct) \o Star(WhiteSpace) \o One({"U2022", "-", "*"}) \o Star(WhiteSpace),
             Group(1, 1) \o Text(<<"\n", "\n">>) \o Group(3, 3) \o Text(<<" ">>))
\* /([.!?])\s*(\d+\.)\s*/g -> '$1\n\n$2 '
breakBeforeNumber ==
  ReplaceAll(One(Punct) \o Star(WhiteSpace) \o Plus(Digits) \o Lit(<<".">>)
             \o Star(WhiteSpace),
             Group(1, 1) \o Text(<<"\n", "\n">>) \o Group(3, 4) \o Text(<<" ">>))
\* /\*+/g -> ''
removeAsterisks == ReplaceAll(Plus({"*"}), <<>>)
\* /\n{n,}/g -> as many line breaks as `to` holds
limitLineBreaks(n, to) == ReplaceAll(Rep({"\n"}, n, -1), Text(to))
\* /([.!?])([A-Za-z\u0E00-\u0E7F])/g -> '$1 $2'
spaceAfterPunct ==
  ReplaceAll(One(Punct) \o One(Letters), Group(1, 1) \o Text(<<" ">>) \o Group(2, 2))
\* /([.!?])\s*([A-Za-z\u0E00-\u0E7F])/g -> '$1\n\n$2'
breakAfterPunct ==
  ReplaceAll(One(Punct) \o Star(WhiteSpace) \o One(Letters),
             Group(1, 1) \o Text(<<"\n", "\n">>) \o Group(3, 3))

\* formatTextForReadability(text)
formatTextForReadability ==
  UnlessEmpty(
    collapseWhiteSpace \o Trim
    \o formatClickableLinks
    \o breakBeforeBullet \o breakBeforeNumber
    \o removeAsterisks
    \o limitLineBreaks(4, <<"\n", "\n", "\n">>)
    \o ReplaceAll(Plus({" ", "\t"}), Text(<<" ">>))
    \o ReplaceAll(Lit(<<"\n">>) \o Plus({" ", "\t"}), Text(<<"\n">>))
    \o spaceAfterPunct
    \o ReplaceAll(One(Punct) \o Rep(WhiteSpace, 2, -1), Group(1, 1) \o Text(<<" ">>))
    \o ReplaceAll(One(Punct) \o Star(WhiteSpace) \o Lit(<<"\n", "\n">>),
                  Group(1, 1) \o Group(3, 3))
    \o Trim
    \o spaceAfterPunct)

\* the particle appended to a Thai reply, kho khwai - mai ek - sara a
politeParticle == <<"U0E04", "U0E48", "U0E30">>
\* /\s*\[ai\]\s*$/i and its like -> ''
stripTag(tag) ==
  ReplaceFirst(Star(WhiteSpace) \o LitI(tag) \o Star(WhiteSpace) \o Eos, <<>>)
tagAi == <<"[", "a", "i", "]">>
tagKeyword == <<"[", "k", "e", "y", "w", "o", "r", "d", "]">>
tagFallback == <<"[", "f", "a", "l", "l", "b", "a", "c", "k", "]">>
\* /\s*\[debug:.*?\]\s*$/i -> ''
stripDebugTag ==
  ReplaceFirst(Star(WhiteSpace) \o LitI(<<"[", "d", "e", "b", "u", "g", ":">>)
               \o LazyStar(Dot) \o Lit(<<"]">>) \o Star(WhiteSpace) \o Eos, <<>>)

\* formatResponse(response, source).  defaultResponse is
\* this.botPersonality?.defaultResponse || process.env.DEFAULT_RESPONSE || the
\* built-in apology; language is this.botPersonality?.language || 'thai'.
formatResponse(response, language, defaultResponse) ==
  Bind(response, LAMBDA text :
    IF text = <<>> THEN defaultResponse
    ELSE Run(text,
             Trim \o collapseWhiteSpace
             \o formatTextForReadability
             \o (IF language = "thai"
                   THEN UnlessEndsWith({<<".">>, <<"!">>, <<"?">>}, AppendText(politeParticle))
                   ELSE <<>>)
             \o stripTag(tagAi) \o stripTag(tagKeyword) \o stripTag(tagFallback)
             \o stripDebugTag))

\* The sheets branch of processMessageDirect: trim, then [keyword] and [ai]
\* taken off the end.
cleanSheetsAnswer(answer) ==
  Run(answer, Trim \o stripTag(tagKeyword) \o stripTag(tagAi))

\* formatMainContent: /^[\s]*[-\u2022]\s*(.+)$/gm -> '\u2022 $1'
normalizeBullets ==
  ReplaceAll(Bol \o Star(WhiteSpace) \o One({"-", "U2022"}) \o Star(WhiteSpace)
             \o Plus(Dot) \o Eol,
             Text(<<"U2022", " ">>) \o Group(5, 5))
\* formatMainContent: /^[\s]*\d+\.\s*(.+)$/gm -> '\u2022 $1'
normalizeNumbers ==
  ReplaceAll(Bol \o Star(WhiteSpace) \o Plus(Digits) \o Lit(<<".">>) \o Star(WhiteSpace)
             \o Plus(Dot) \o Eol,
             Text(<<"U2022", " ">>) \o Group(6, 6))

\* formatNumberedSections(content)
formatNumberedSections ==
  ReplaceAll(Bol \o One(Letters) \o Star(Chars \ {":"}) \o Lit(<<":">>) \o Eol,
             Text(<<"\n">>) \o Group(2, 4) \o Text(<<"\n">>))
  \o ReplaceAll(One(Punct) \o Star(WhiteSpace) \o Lit(<<"\n">>) \o Star(WhiteSpace)
                \o One(Letters) \o Star(Chars \ {":"}) \o Lit(<<":">>),
                Group(1, 1) \o Text(<<"\n", "\n">>) \o Group(5, 7))

\* formatBulletPoints(content)
formatBulletPoints == breakBeforeBullet \o breakBeforeNumber

\* simpleFormatting(content)
simpleFormatting ==
  breakAfterPunct
  \o ReplaceAll(Lit(<<":">>) \o Star(WhiteSpace) \o One(Letters),
                Group(1, 1) \o Text(<<"\n", "\n">>) \o Group(3, 3))
  \o limitLineBreaks(3, <<"\n", "\n">>)
  \o Trim

\* the two Thai greetings removed from the start of a line
greetingKha == <<"U0E2A", "U0E27", "U0E31", "U0E2A", "U0E14", "U0E35", "U0E04",
      "U0E48", "U0E30">>
greetingKhrap == <<"U0E2A", "U0E27", "U0E31", "U0E2A", "U0E14", "U0E35", "U0E04",
      "U0E23", "U0E31", "U0E1A">>
\* /^HappySmart\s+is\s+an\s+expert\s+ ... \(Intelligent\s+Living\s+Solutions\)\s*\.?\s*/gm
reHappySmart ==
  Bol \o Lit(<<"H", "a", "p", "p", "y", "S", "m", "a", "r", "t">>) \o Plus(WhiteSpace) \o
  Lit(<<"i", "s">>) \o Plus(WhiteSpace) \o
  Lit(<<"a", "n">>) \o Plus(WhiteSpace) \o
  Lit(<<"e", "x", "p", "e", "r", "t">>) \o Plus(WhiteSpace) \o
  Lit(<<"i", "n">>) \o Plus(WhiteSpace) \o
  Lit(<<"d", "e", "s", "i", "g", "n", "i", "n", "g">>) \o Plus(WhiteSpace) \o
  Lit(<<"a", "n", "d">>) \o Plus(WhiteSpace) \o
  Lit(<<"d", "e", "v", "e", "l", "o", "p", "i", "n", "g">>) \o Plus(WhiteSpace) \o
  Lit(<<"i", "n", "t", "e", "l", "l", "i", "g", "e", "n", "t">>) \o Plus(WhiteSpace) \o
  Lit(<<"l", "i", "v", "i", "n", "g">>) \o Plus(WhiteSpace) \o
  Lit(<<"i", "n", "n", "o", "v", "a", "t", "i", "o", "n", "s">>) \o Star(WhiteSpace) \o
  Lit(<<"(", "I", "n", "t", "e", "l", "l", "i", "g", "e", "n", "t">>) \o Plus(WhiteSpace) \o
  Lit(<<"L", "i", "v", "i", "n", "g">>) \o Plus(WhiteSpace) \o
  Lit(<<"S", "o", "l", "u", "t", "i", "o", "n", "s", ")">>) \o
  Star(WhiteSpace) \o Opt({"."}) \o Star(WhiteSpace)

\* improveSentenceStructure(content)
improveSentenceStructure ==
  ReplaceAll(Bol \o Lit(greetingKha) \o Star(WhiteSpace), <<>>)
  \o ReplaceAll(Bol \o Lit(greetingKhrap) \o Star(WhiteSpace), <<>>)
  \o ReplaceAll(reHappySmart, <<>>)
  \o simpleFormatting
  \o spaceAfterPunct
  \o breakAfterPunct

\* analyzeSentenceBreaks: /([.!?])\s*([A-Za-z\u0E00-\u0E7F] ...)/g -> '$1\n\n$2', where
\* `tail` is what the sentence has to hold after its first letter.
breakBeforeSentence(tail) ==
  ReplaceAll(One(Punct) \o Star(WhiteSpace) \o One(Letters) \o tail,
             Group(1, 1) \o Text(<<"\n", "\n">>) \o Group(3, 3 + Len(tail)))

\* analyzeSentenceBreaks(content)
analyzeSentenceBreaks ==
  LET any == Star(NotPunct)
  IN breakBeforeSentence(Rep(NotPunct, 80, -1))
     \o breakBeforeSentence(any \o Lit(<<",">>) \o any \o Lit(<<",">>) \o any)
     \o breakBeforeSentence(any \o Lit(<<":">>) \o any)
     \o breakBeforeSentence(any \o Lit(<<"(">>) \o Star(Chars \ {")"}) \o Lit(<<")">>)
                            \o any)
     \o breakBeforeSentence(any \o Rep(Digits \cup {"@", "-"}, 5, -1) \o any)
     \o breakBeforeSentence(any \o Plus(Digits) \o any)
     \o breakBeforeSentence(any \o One({"-", "U2022"}) \o any)
     \o breakBeforeSentence(any \o Plus(Digits) \o Lit(<<".">>) \o Star(WhiteSpace) \o any)

\* addParagraphBreaks(content)
addParagraphBreaks ==
  analyzeSentenceBreaks
  \o ReplaceAll(One(Punct) \o Star(WhiteSpace) \o Lit(<<"\n">>) \o Star(WhiteSpace)
                \o One(Letters) \o One(Chars \ {"U2022", "-", "*", ":"}),
                Group(1, 1) \o Text(<<"\n", "\n">>) \o Group(5, 6))
  \o spaceAfterPunct

\* cleanupWhitespace(content)
cleanupWhitespace == limitLineBreaks(3, <<"\n", "\n">>) \o Trim

\* formatMainContent(content, firstSentence)
formatMainContent ==
  normalizeBullets \o normalizeNumbers
  \o formatNumberedSections
  \o formatBulletPoints
  \o improveSentenceStructure
  \o addParagraphBreaks
  \o cleanupWhitespace

\* The closing line of applySimpleTemplate, with the two line breaks before it.
closing ==
  <<"\n", "\n", "U0E2B", "U0E32", "U0E01", "U0E2A", "U0E19", "U0E43",
      "U0E08", " ", "U0E2A", "U0E32", "U0E21", "U0E32", "U0E23", "U0E16",
      "U0E2A", "U0E2D", "U0E1A", "U0E16", "U0E32", "U0E21", "U0E23",
      "U0E32", "U0E22", "U0E25", "U0E30", "U0E40", "U0E2D", "U0E35",
      "U0E22", "U0E14", "U0E40", "U0E1E", "U0E34", "U0E48", "U0E21",
      "U0E40", "U0E15", "U0E34", "U0E21", "U0E2B", "U0E23", "U0E37",
      "U0E2D", "U0E19", "U0E31", "U0E14", "U0E2B", "U0E21", "U0E32",
      "U0E22", "U0E40", "U0E1E", "U0E37", "U0E48", "U0E2D", "U0E1B",
      "U0E23", "U0E36", "U0E01", "U0E29", "U0E32", "U0E44", "U0E14",
      "U0E49", "U0E15", "U0E25", "U0E2D", "U0E14", "U0E40", "U0E25",
      "U0E22", "U0E19", "U0E30", "U0E04", "U0E30", " ", "UD83D", "UDE0A">>

\* applySimpleTemplate(content)
applySimpleTemplate == UnlessEmpty(formatMainContent \o AppendText(closing))

\* formatDocsAnswer(answer)
formatDocsAnswer(answer) ==
  Run(answer,
      UnlessEmpty(Trim
                  \o formatClickableLinks
                  \o applySimpleTemplate
                  \o limitLineBreaks(3, <<"\n", "\n">>)
                  \o removeAsterisks
                  \o Trim))

\* ------------------------------------------------------------- RateLimiter
\* RATE_LIMITS.user.windowMs = RATE_LIMITS.global.windowMs = 60 * 1000 ms,
\* which is two limiter time units of 30 seconds.
windowMs == 2
\* RATE_LIMITS.user.maxRequests = 10 and RATE_LIMITS.global.maxRequests = 100
\* in the source; scaled down so that two users reach both limits.
userMaxRequests == 2
globalMaxRequests == 3
\* Horizon of the limiter's clock, and events of one webhook call.
MaxLimiterTime == 3
MaxEvents == 2

RATE_LIMITS ==
  [user |-> [windowMs |-> windowMs, maxRequests |-> userMaxRequests],
   global |-> [windowMs |-> windowMs, maxRequests |-> globalMaxRequests]]

\* requests.filter(time => now - time < windowMs)
RecentRequests(times, t, window) == SelectSeq(times, LAMBDA time : t - time < window)

\* checkGlobalLimit(now, limit)
checkGlobalLimit(reqs, t, limit) ==
  IF "global" \notin DOMAIN reqs THEN TRUE
  ELSE Len(RecentRequests(reqs["global"].requests, t, limit.windowMs))
         < limit.maxRequests

\* checkUserLimit with <= in place of <.
checkUserLimit_inclusive(reqs, userId, t, limit) ==
  IF userId \notin DOMAIN reqs THEN TRUE
  ELSE Len(RecentRequests(reqs[userId].requests, t, limit.windowMs))
         <= limit.maxRequests

\* checkUserLimit(userId, now, limit)
checkUserLimit(reqs, userId, t, limit) ==
  IF userId \notin DOMAIN reqs THEN TRUE
  ELSE Len(RecentRequests(reqs[userId].requests, t, limit.windowMs))
         < limit.maxRequests

\* recordRequest(identifier, now): the map after the call.
recordRequest(reqs, identifier, t) ==
  LET entry == IF identifier \in DOMAIN reqs THEN reqs[identifier]
               ELSE [type |-> IF identifier = "global" THEN "global" ELSE "user",
                     requests |-> <<>>]
  IN [i \in DOMAIN reqs \cup {identifier} |->
        IF i = identifier THEN [entry EXCEPT !.requests = Append(@, t)]
        ELSE reqs[i]]

\* Math.min(...data.requests)
OldestRequest(times) ==
  CHOOSE m \in {times[i] : i \in DOMAIN times} :
    \A i \in DOMAIN times : m <= times[i]

\* getRetryAfter(identifier, now, windowMs)
getRetryAfter(reqs, identifier, t, window) ==
  IF identifier \notin DOMAIN reqs \/ reqs[identifier].requests = <<>> THEN 0
  ELSE LET retryAfter == (OldestRequest(reqs[identifier].requests) + window) - t
       IN IF retryAfter > 0 THEN retryAfter ELSE 0

\* isAllowed that records the attempt before it tests the limits.
isAllowed_recordsFirst(reqs, userId, t) ==
  LET recorded == recordRequest(recordRequest(reqs, userId, t), "global", t)
  IN IF ~checkGlobalLimit(reqs, t, RATE_LIMITS.global)
       THEN [allowed |-> FALSE, reason |-> "global_rate_limit_exceeded",
             retryAfter |-> getRetryAfter(reqs, "global", t, windowMs),
             requests |-> recorded]
     ELSE IF ~checkUserLimit(reqs, userId, t, RATE_LIMITS.user)
       THEN [allowed |-> FALSE, reason |-> "user_rate_limit_exceeded",
             retryAfter |-> getRetryAfter(reqs, userId, t, windowMs),
             requests |-> recorded]
     ELSE [allowed |-> TRUE, reason |-> "allowed", retryAfter |-> 0,
           requests |-> recorded]

\* isAllowed(userId) at time t: the object returned (retryAfter is absent from
\* the allowed result and written 0 here) and the map after the call.
isAllowed(reqs, userId, t) ==
  IF ~checkGlobalLimit(reqs, t, RATE_LIMITS.global)
    THEN [allowed |-> FALSE, reason |-> "global_rate_limit_exceeded",
          retryAfter |-> getRetryAfter(reqs, "global", t, windowMs),
          requests |-> reqs]
  ELSE IF ~checkUserLimit(reqs, userId, t, RATE_LIMITS.user)
    THEN [allowed |-> FALSE, reason |-> "user_rate_limit_exceeded",
          retryAfter |-> getRetryAfter(reqs, userId, t, windowMs),
          requests |-> reqs]
  ELSE [allowed |-> TRUE, reason |-> "allowed", retryAfter |-> 0,
        requests |-> recordRequest(recordRequest(reqs, userId, t), "global", t)]

\* cleanup() at time t: the map after the call.
cleanup(reqs, t) ==
  LET users == {i \in DOMAIN reqs : reqs[i].type = "user"}
      kept(i) == RecentRequests(reqs[i].requests, t,
                   IF reqs[i].type = "user" THEN RATE_LIMITS.user.windowMs
                   ELSE RATE_LIMITS.global.windowMs)
      swept == {i \in DOMAIN reqs :
                  (i \in users \/ (i = "global" /\ reqs[i].type = "global"))}
  IN [i \in {j \in DOMAIN reqs : j \notin swept \/ kept(j) # <<>>} |->
        IF i \in swept THEN [reqs[i] EXCEPT !.requests = kept(i)] ELSE reqs[i]]

\* ------------------------------------------------------- the webhook handler
\* event.source?.userId of an event without one.
NoUserId == "none"
EventUsers == Users \cup {NoUserId}
\* The events of a webhook call, each written as its source's userId.
EventLists ==
  UNION {[1..n -> EventUsers] : n \in 1..MaxEvents}

\* The webhook calls followed. isAllowed runs to completion within one turn
\* of the event loop, so calls served side by side decide as the same events
\* arriving in consecutive calls do.
WebhookCalls == {1}
IdleCall == [pc |-> "idle"]

\* The for loop of lineHandler from the event at position call.index, run up
\* to the next await of processEvent or to the end of the events: the call,
\* the limiter's map, and the isAllowed calls made on the way.
RECURSIVE lineHandlerLoop(_, _, _, _)
lineHandlerLoop(call, reqs, t, decisions) ==
  IF call.index > Len(call.events)
    THEN [call |-> [call EXCEPT !.pc = "responded"], requests |-> reqs,
          decisions |-> decisions]
  ELSE
    \* The binding keeps the result of the one isAllowed call of this turn.
    LET userId == call.events[call.index]
        result == IF userId # NoUserId THEN isAllowed(reqs, userId, t)
                  ELSE [allowed |-> TRUE, reason |-> "no_user",
                        retryAfter |-> 0, requests |-> reqs]
        made == IF userId # NoUserId
                  THEN Append(decisions,
                         [index |-> call.index, userId |-> userId, time |-> t,
                          allowed |-> result.allowed, reason |-> result.reason,
                          recorded |-> result.requests # reqs])
                  ELSE decisions
    IN IF ~result.allowed
         THEN lineHandlerLoop(
                [call EXCEPT !.index = @ + 1,
                             !.dropped = @ \cup {call.index}],
                result.requests, t, made)
         ELSE [call |-> [call EXCEPT !.pc = "processEvent"],
               requests |-> result.requests, decisions |-> made]

\* The number of admissions of userId at time t among the isAllowed calls of
\* a step.
Admissions(decisions, userId, t) ==
  Cardinality({i \in DOMAIN decisions :
                 /\ decisions[i].allowed
                 /\ decisions[i].userId = userId
                 /\ decisions[i].time = t})

LimiterInit ==
  /\ limiterRequests = <<>>
  /\ limiterNow = 0
  /\ webhook = [calls |-> [c \in WebhookCalls |-> IdleCall],
                admitted |-> [u \in Users, t \in 0..MaxLimiterTime |-> 0]]

\* What a step of call c leaves; a finished call has answered 200.
AfterLoop(c, run) ==
  /\ limiterRequests' = run.requests
  /\ webhook' =
       [calls |-> [webhook.calls EXCEPT ![c] = run.call],
        admitted |-> [u \in Users, t \in 0..MaxLimiterTime |->
                        webhook.admitted[u, t] + Admissions(run.decisions, u, t)]]
  /\ last' = [op |-> "lineHandler", call |-> c, decisions |-> run.decisions]

\* lineHandler(req, res) with a valid signature and the given events, up to
\* its first await.
lineHandler(c, events) ==
  /\ webhook.calls[c].pc \in {"idle", "responded"}
  /\ \E run \in {lineHandlerLoop(
                   [pc |-> "loop", events |-> events, index |-> 1,
                    dropped |-> {}, processed |-> {}],
                   limiterRequests, limiterNow, <<>>)} :
       AfterLoop(c, run)
  /\ UNCHANGED <<limiterNow, coreVars, autoRefreshVars, smallChatVars, lineVars>>

\* await processEvent(event) returns (processEvent catches what it raises);
\* the loop goes on with the next event.
processEventReturns(c) ==
  /\ webhook.calls[c].pc = "processEvent"
  /\ \E run \in {lineHandlerLoop(
                   [webhook.calls[c] EXCEPT
                      !.pc = "loop", !.index = @ + 1,
                      !.processed = @ \cup {webhook.calls[c].index}],
                   limiterRequests, limiterNow, <<>>)} :
       AfterLoop(c, run)
  /\ UNCHANGED <<limiterNow, coreVars, autoRefreshVars, smallChatVars, lineVars>>

\* Time passes.
LimiterTick ==
  /\ limiterNow < MaxLimiterTime
  /\ limiterNow' = limiterNow + 1
  /\ last' = [op |-> "limiterTick"]
  /\ UNCHANGED <<limiterRequests, webhook, coreVars, autoRefreshVars, smallChatVars,
                 lineVars>>

\* The cleanup interval of startCleanup fires.
LimiterCleanup ==
  /\ limiterRequests' = cleanup(limiterRequests, limiterNow)
  /\ last' = [op |-> "limiterCleanup", before |-> limiterRequests]
  /\ UNCHANGED <<limiterNow, webhook, coreVars, autoRefreshVars, smallChatVars,
                 lineVars>>

\* -------------------------------------------------------- AutoRefreshService
\* Number of setInterval calls and of refreshData calls under way in a run.
MaxTimers == 3
MaxRefreshes == 2
\* The values passed to updateInterval, in ms; the minimum is 60000.
minInterval == 60000
Intervals == {0, minInterval - 1, minInterval, minInterval + 1, 2 * minInterval}

\* The service and the runtime's timers as one value: the fields of the
\* object, the interval timers installed (id -> delay), the number of
\* setInterval calls made, and the refreshData calls awaiting
\* chatbotService.refreshData().
AutoRefresh ==
  [isRunning |-> isRunning, intervalId |-> intervalId,
   refreshInterval |-> refreshInterval, installed |-> timers.installed,
   created |-> timers.created, refreshing |-> timers.refreshing]

\* refreshData() up to its await.
refreshData(svc) == [svc EXCEPT !.refreshing = @ + 1]

\* start() without the isRunning test.
start_unguarded(svc) ==
  LET id == svc.created + 1
      begun == refreshData([svc EXCEPT !.isRunning = TRUE])
  IN [begun EXCEPT
        !.intervalId = id, !.created = id,
        !.installed = [i \in DOMAIN svc.installed \cup {id} |->
                         IF i = id THEN svc.refreshInterval
                         ELSE svc.installed[i]]]

\* start()
start(svc) ==
  IF svc.isRunning THEN svc
  ELSE LET id == svc.created + 1
           begun == refreshData([svc EXCEPT !.isRunning = TRUE])
       IN [begun EXCEPT
             !.intervalId = id, !.created = id,
             !.installed = [i \in DOMAIN svc.installed \cup {id} |->
                              IF i = id THEN svc.refreshInterval
                              ELSE svc.installed[i]]]

\* stop() that leaves the interval timer installed.
stop_keepsTimer(svc) ==
  IF ~svc.isRunning THEN svc
  ELSE [svc EXCEPT !.isRunning = FALSE, !.intervalId = 0]

\* stop(); clearInterval of an id that is not installed does nothing.
stop(svc) ==
  IF ~svc.isRunning THEN svc
  ELSE IF svc.intervalId # 0
    THEN [svc EXCEPT !.isRunning = FALSE, !.intervalId = 0,
                     !.installed = [i \in DOMAIN svc.installed \ {svc.intervalId}
                                      |-> svc.installed[i]]]
  ELSE [svc EXCEPT !.isRunning = FALSE]

\* updateInterval(interval) that takes the interval as given.
updateInterval_noMinimum(svc, interval) ==
  LET set == [svc EXCEPT !.refreshInterval = interval]
  IN IF svc.isRunning THEN start(stop(set)) ELSE set

\* updateInterval(interval)
updateInterval(svc, interval) ==
  LET set == [svc EXCEPT !.refreshInterval =
                           IF interval < minInterval THEN minInterval
                           ELSE interval]
  IN IF svc.isRunning THEN start(stop(set)) ELSE set

AutoRefreshInit ==
  /\ isRunning = FALSE
  /\ intervalId = 0
  /\ refreshInterval = minInterval
  /\ timers = [installed |-> <<>>, created |-> 0, refreshing |-> 0]

\* The service after a call that leaves svc.
AutoRefreshBecomes(svc) ==
  /\ isRunning' = svc.isRunning
  /\ intervalId' = svc.intervalId
  /\ refreshInterval' = svc.refreshInterval
  /\ timers' = [installed |-> svc.installed, created |-> svc.created,
                refreshing |-> svc.refreshing]
  /\ UNCHANGED <<coreVars, limiterVars, smallChatVars, lineVars>>

\* A call of start().
Start ==
  /\ timers.created < MaxTimers
  /\ timers.refreshing < MaxRefreshes
  /\ AutoRefreshBecomes(start(AutoRefresh))
  /\ last' = [op |-> "start", before |-> AutoRefresh]

\* A call of stop().
Stop ==
  /\ AutoRefreshBecomes(stop(AutoRefresh))
  /\ last' = [op |-> "stop", before |-> AutoRefresh]

\* A call of updateInterval(interval).
UpdateInterval(interval) ==
  /\ timers.created < MaxTimers
  /\ timers.refreshing < MaxRefreshes
  /\ AutoRefreshBecomes(updateInterval(AutoRefresh, interval))
  /\ last' = [op |-> "updateInterval", before |-> AutoRefresh,
              interval |-> interval]

\* A call of forceRefresh(), up to the await inside refreshData().
ForceRefresh ==
  /\ timers.refreshing < MaxRefreshes
  /\ AutoRefreshBecomes(refreshData(AutoRefresh))
  /\ last' = [op |-> "forceRefresh", before |-> AutoRefresh]

\* An installed interval timer fires: its callback calls refreshData().
IntervalFires(id) ==
  /\ id \in DOMAIN timers.installed
  /\ timers.refreshing < MaxRefreshes
  /\ AutoRefreshBecomes(refreshData(AutoRefresh))
  /\ last' = [op |-> "intervalFires", before |-> AutoRefresh, id |-> id]

\* chatbotService.refreshData() settles; refreshData() catches a rejection.
RefreshDataReturns ==
  /\ timers.refreshing > 0
  /\ AutoRefreshBecomes([AutoRefresh EXCEPT !.refreshing = @ - 1])
  /\ last' = [op |-> "refreshDataReturns", before |-> AutoRefresh]

\* ------------------------------------------------- ChatService (small variant)
\* cacheExpiry: 5 * 60 * 1000 ms, in minutes.
chatCacheExpiry == 5
\* Horizon of ChatService's clock and number of getDocumentContent calls.
MaxChatTime == 7
MaxChatCalls == 3
\* What googleDocsService.getDocumentContent() resolves with.
ProvidedContents == {"", "doc1", "doc2"}

\* The ChatService object after its constructor: its one own property is
\* cache; null is written "" for the content and 0 for the time.
ChatServiceObject(cache) == [cache |-> cache]
NewCache ==
  [documentContent |-> "", lastDocumentFetch |-> 0,
   cacheExpiry |-> chatCacheExpiry]

\* obj[name] in JavaScript: the value, or nothing for undefined.
Property(obj, name) == IF name \in DOMAIN obj THEN {obj[name]} ELSE {}
\* x < y where y may be undefined: undefined converts to NaN and every
\* comparison with NaN is false.
LessThan(x, y) == \E v \in y : x < v

\* this.cache.documentContent && this.cache.lastDocumentFetch &&
\* (now - this.cache.lastDocumentFetch) < this.cacheExpiry
ChatCacheValid(this, t) ==
  /\ this.cache.documentContent # ""
  /\ this.cache.lastDocumentFetch # 0
  /\ LessThan(t - this.cache.lastDocumentFetch, Property(this, "cacheExpiry"))

SmallChatInit ==
  /\ chatCache = NewCache
  /\ chatNow = 1
  /\ chatCalls = {}
  /\ providerFetches = 0

\* getDocumentContent() of ChatService up to its return or its await.
chatGetDocumentContent ==
  /\ providerFetches + Cardinality(chatCalls) < MaxChatCalls
  /\ IF ChatCacheValid(ChatServiceObject(chatCache), chatNow)
       THEN /\ last' = [op |-> "chatGetDocumentContent", path |-> "cached",
                        result |-> chatCache.documentContent,
                        fetchesBefore |-> providerFetches]
            /\ UNCHANGED <<chatCalls, providerFetches>>
       ELSE /\ providerFetches' = providerFetches + 1
            /\ chatCalls' = chatCalls \cup
                              {[id |-> providerFetches + 1, now |-> chatNow]}
            /\ last' = [op |-> "chatGetDocumentContent", path |-> "fetch",
                        result |-> "", fetchesBefore |-> providerFetches]
  /\ UNCHANGED <<chatCache, chatNow, coreVars, limiterVars, autoRefreshVars,
                 lineVars>>

\* The provider resolves with content: the call stores it with the time read
\* before the await and returns it.
ProviderResolves(call, content) ==
  /\ call \in chatCalls
  /\ chatCalls' = chatCalls \ {call}
  /\ chatCache' = [chatCache EXCEPT !.documentContent = content,
                                    !.lastDocumentFetch = call.now]
  /\ last' = [op |-> "providerResolves", id |-> call.id, result |-> content]
  /\ UNCHANGED <<chatNow, providerFetches, coreVars, limiterVars,
                 autoRefreshVars, lineVars>>

\* The provider rejects: the catch block returns null, the cache is as it was.
ProviderRejects(call) ==
  /\ call \in chatCalls
  /\ chatCalls' = chatCalls \ {call}
  /\ last' = [op |-> "providerRejects", id |-> call.id, result |-> ""]
  /\ UNCHANGED <<chatCache, chatNow, providerFetches, coreVars, limiterVars,
                 autoRefreshVars, lineVars>>

\* A minute passes.
ChatTick ==
  /\ chatNow < MaxChatTime
  /\ chatNow' = chatNow + 1
  /\ last' = [op |-> "chatTick"]
  /\ UNCHANGED <<chatCache, chatCalls, providerFetches, coreVars, limiterVars,
                 autoRefreshVars, lineVars>>

\* --------------------------------------------------------------- LineService
\* The longest text LINE accepts: 5000 characters in the source, scaled down
\* so that lines and words of more than twice the limit fit a short message.
maxTextLength == 3
\* Length of the texts given to sendTextMessage.
MaxMessageLength == 7
TextChars == {"a", " ", "\n"}
LineTexts == UNION {[1..n -> TextChars] : n \in 0..MaxMessageLength}

\* s.split(sep) for a one-character separator: the fields between the
\* separators, empty ones included.
RECURSIVE splitByFrom(_, _, _, _)
splitByFrom(s, sep, field, fields) ==
  IF s = <<>> THEN Append(fields, field)
  ELSE IF Head(s) = sep
    THEN splitByFrom(Tail(s), sep, <<>>, Append(fields, field))
    ELSE splitByFrom(Tail(s), sep, Append(field, Head(s)), fields)
splitBy(s, sep) == splitByFrom(s, sep, <<>>, <<>>)

\* s.substring(from) and s.substring(0, to)
substringFrom(s, from) == SubSeq(s, from + 1, Len(s))
substringTo(s, to) == SubSeq(s, 1, Min2(to, Len(s)))

\* a + (a ? sep : '') + b
Joined(a, sep, b) == IF a = <<>> THEN b ELSE a \o <<sep>> \o b

\* The loop over the words of a line that did not fit: chunks and
\* currentWordChunk after the words from position i on.
RECURSIVE splitWords(_, _, _, _, _)
splitWords(words, i, chunks, currentWordChunk, maxLength) ==
  IF i > Len(words)
    THEN [chunks |-> chunks, currentWordChunk |-> currentWordChunk]
  ELSE IF Len(currentWordChunk) + Len(words[i]) + 1 <= maxLength
    THEN splitWords(words, i + 1, chunks,
                    Joined(currentWordChunk, " ", words[i]), maxLength)
  ELSE IF currentWordChunk # <<>>
    THEN splitWords(words, i + 1, Append(chunks, currentWordChunk), words[i],
                    maxLength)
  ELSE splitWords(words, i + 1,
                  Append(chunks, substringTo(words[i], maxLength)),
                  substringFrom(words[i], maxLength), maxLength)

\* The loop over the lines of the message: chunks and currentChunk after the
\* lines from position i on.
RECURSIVE splitLines(_, _, _, _, _)
splitLines(lines, i, chunks, currentChunk, maxLength) ==
  IF i > Len(lines) THEN [chunks |-> chunks, currentChunk |-> currentChunk]
  ELSE IF Len(currentChunk) + Len(lines[i]) + 1 <= maxLength
    THEN splitLines(lines, i + 1, chunks,
                    Joined(currentChunk, "\n", lines[i]), maxLength)
  ELSE IF currentChunk # <<>>
    THEN splitLines(lines, i + 1, Append(chunks, currentChunk), lines[i],
                    maxLength)
  ELSE LET byWords == splitWords(splitBy(lines[i], " "), 1, chunks, <<>>,
                                 maxLength)
       IN splitLines(lines, i + 1, byWords.chunks,
                     IF byWords.currentWordChunk # <<>>
                       THEN byWords.currentWordChunk ELSE currentChunk,
                     maxLength)

\* splitMessage(message, maxLength)
splitMessage(message, maxLength) ==
  LET done == splitLines(splitBy(message, "\n"), 1, <<>>, <<>>, maxLength)
  IN IF done.currentChunk # <<>> THEN Append(done.chunks, done.currentChunk)
     ELSE done.chunks

\* No sendTextMessage call has been made.
NoPush == [pc |-> "idle"]
LineInit == pushed = NoPush

\* sendTextMessage(userId, messageText) up to its first await of pushMessage:
\* the texts it is going to push.
sendTextMessage ==
  /\ pushed.pc = "called"
  /\ \E chunks \in {IF Len(pushed.text) > maxTextLength
                       THEN splitMessage(pushed.text, maxTextLength)
                     ELSE <<pushed.text>>} :
       pushed' = [pushed EXCEPT
                    !.chunks = chunks,
                    !.pc = IF chunks = <<>> THEN "sent" ELSE "pushing"]
  /\ last' = [op |-> "sendTextMessage"]
  /\ UNCHANGED <<coreVars, limiterVars, autoRefreshVars, smallChatVars>>

\* pushMessage(userId, chunk) resolves: the text is with LINE, and the call
\* goes on to the next chunk or ends.
PushMessageResolves ==
  /\ pushed.pc = "pushing"
  /\ pushed.chunks # <<>>
  /\ pushed' = [pushed EXCEPT
                  !.texts = Append(@, Head(pushed.chunks)),
                  !.chunks = Tail(@),
                  !.pc = IF Tail(pushed.chunks) = <<>> THEN "sent" ELSE "pushing"]
  /\ last' = [op |-> "pushMessage", text |-> Head(pushed.chunks)]
  /\ UNCHANGED <<coreVars, limiterVars, autoRefreshVars, smallChatVars>>

\* pushMessage rejects: sendTextMessage logs the error and rethrows it.
PushMessageRejects ==
  /\ pushed.pc = "pushing"
  /\ pushed.chunks # <<>>
  /\ pushed' = [pushed EXCEPT !.pc = "failed"]
  /\ last' = [op |-> "pushMessageRejects"]
  /\ UNCHANGED <<coreVars, limiterVars, autoRefreshVars, smallChatVars>>

\* The state of the services around the chatbot before any call.
EdgeInit == LimiterInit /\ AutoRefreshInit /\ SmallChatInit /\ LineInit

\* ------------------------------------------------------------------ replies
\* No message is being handled and no answer is waiting to be formatted.
NotHandling == [pc |-> "idle"]
NoDraft == [state |-> "none"]
HandlingInit == handling = NotHandling /\ draft = NoDraft
ReplyInit == HandlingInit /\ EdgeInit

\* 'contact@example.com' and the link formatClickableLinks makes of it
contactEmail ==
  <<"c", "o", "n", "t", "a", "c", "t", "@", "e", "x", "a", "m", "p", "l",
    "e", ".", "c", "o", "m">>
contactLink ==
  <<"[">> \o contactEmail \o <<"]", "(">> \o schemeMailto \o contactEmail \o <<")">>

\* The apology built into formatResponse and generateAIResponse.
builtinApology ==
  <<"U0E02", "U0E2D", "U0E2D", "U0E20", "U0E31", "U0E22", "U0E04", "U0E48",
    "U0E30", " ", "U0E44", "U0E21", "U0E48", "U0E2A", "U0E32", "U0E21",
    "U0E32", "U0E23", "U0E16", "U0E15", "U0E2D", "U0E1A", "U0E04", "U0E33",
    "U0E16", "U0E32", "U0E21", "U0E19", "U0E35", "U0E49", "U0E44", "U0E14",
    "U0E49", "U0E43", "U0E19", "U0E02", "U0E13", "U0E30", "U0E19", "U0E35",
    "U0E49">>

\* Answers of the sources and texts of the model, as they reach the
\* formatting functions.
Drafts ==
  {<<"U0E15", "U0E34", "U0E14", "U0E15", "U0E48", "U0E2D", ":", " ", "c", "o",
     "n", "t", "a", "c", "t", "@", "e", "x", "a", "m", "p", "l", "e", ".",
     "c", "o", "m">>,
   <<"c", "o", "n", "t", "a", "c", "t", "@", "e", "x", "a", "m", "p", "l",
     "e", ".", "c", "o", "m">>,
   <<"E", "m", "a", "i", "l", " ", "c", "o", "n", "t", "a", "c", "t", "@",
     "e", "x", "a", "m", "p", "l", "e", ".", "c", "o", "m", ".">>,
   <<"h", "e", "l", "l", "o", " ", "[", "a", "i", "]">>,
   <<"a", "n", "s", "w", "e", "r", " ", "[", "k", "e", "y", "w", "o", "r",
     "d", "]">>,
   <<"a", "n", "s", "w", "e", "r", " ", "[", "k", "e", "y", "w", "o", "r",
     "d", "]", " ", "[", "a", "i", "]">>,
   <<"a", "n", "s", "w", "e", "r", " ", "[", "a", "i", "]", " ", "[", "k",
     "e", "y", "w", "o", "r", "d", "]">>,
   <<"T", "h", "a", "n", "k", "s", ".", " ", "[", "A", "I", "]">>,
   <<"1", "0", "0", "0", " ", "U0E1A", "U0E32", "U0E17">>,
   <<"U0E2A", "U0E27", "U0E31", "U0E2A", "U0E14", "U0E35", "U0E04", "U0E48",
     "U0E30", " ", "[", "a", "i", "]">>,
   <<"o", "k", " ", "[", "f", "a", "l", "l", "b", "a", "c", "k", "]">>,
   <<"n", "o", "t", "e", " ", "[", "d", "e", "b", "u", "g", ":", " ", "v",
     "1", "]">>,
   <<>>,
   <<"D", "o", "n", "e", "!">>,
   <<"s", "e", "e", " ", "w", "w", "w", ".", "s", "i", "t", "e", ".", "c",
     "o", "m">>}
Languages == {"thai", "english"}

\* An answer is ready to be turned into the reply; language is
\* this.botPersonality?.language || 'thai'.
NextDraft(text, language) ==
  /\ draft = NoDraft
  /\ draft' = [state |-> "ready", text |-> text, language |-> language]
  /\ last' = [op |-> "draft"]
  /\ UNCHANGED <<chatVars, docsVars, sheetsVars, genVars, analysisVars, handling,
                 edgeVars>>

Delivered(path, reply) ==
  /\ last' = [op |-> "deliver", path |-> path, answer |-> draft.text,
              language |-> draft.language, reply |-> reply]
  /\ draft' = NoDraft
  /\ UNCHANGED <<chatVars, docsVars, sheetsVars, genVars, analysisVars, handling,
                 edgeVars>>

\* processMessageDirect returns an accepted document match.
DeliverDocs ==
  /\ draft # NoDraft /\ draft.text # <<>>
  /\ Delivered("docs", formatDocsAnswer(draft.text))

\* processMessageDirect returns an accepted sheet match.
DeliverSheets ==
  /\ draft # NoDraft /\ draft.text # <<>>
  /\ Delivered("sheets", cleanSheetsAnswer(draft.text))

\* processMessageDirect returns the generated response.
DeliverAi ==
  /\ draft # NoDraft
  /\ Delivered("ai", formatResponse(draft.text, draft.language, builtinApology))

\* ------------------------------------------------------------- orchestrator
\* processMessageDirect step by step: the analysis, the lookups in the two
\* sources and the generated response, each between two awaits.
\* The entry {keyword: 'U0E23U0E32U0E04U0E32', answer: '1000 U0E1AU0E32U0E17'}
\* of the keyword sheet.
priceKeyword == <<"U0E23", "U0E32", "U0E04", "U0E32">>
priceAnswer ==
  <<"1", "0", "0", "0", " ", "U0E1A", "U0E32", "U0E17">>
taggedAnswer ==
  <<"a", "n", "s", "w", "e", "r", " ", "[", "k", "e", "y", "w", "o", "r",
    "d", "]">>
smallTalk == <<"h", "i">>
HandledMessages == {priceKeyword, smallTalk}
priceTable ==
  MakeEntries(<<[keyword |-> priceKeyword, answer |-> priceAnswer]>>, 0, "Sheet1")
Tables == {<<>>, priceTable}

\* What geminiService.generateResponse gives findBestAnswerWithAI:
\*   error   the call throws;
\*   text    a text that is not JSON;
\*   null    the JSON text 'null';
\*   object  a JSON object with the fields of `value` ('' or a missing field
\*           is the empty text; confidence may be missing);
\* and how the text is wrapped: not at all, in a markdown code fence, or in
\* a sentence around it.
MatchConfidences ==
  {docsThreshold, docsThreshold + 1, sheetsThreshold, sheetsThreshold + 1}
LlmAnswers == {priceAnswer, taggedAnswer}
confidentMatch ==
  [keyword |-> priceKeyword, answer |-> priceAnswer,
   confidence |-> sheetsThreshold + 1]
LlmObjects ==
  [keyword : {priceKeyword}, answer : LlmAnswers, confidence : MatchConfidences]
  \cup {[keyword |-> priceKeyword, answer |-> priceAnswer],
        [confidentMatch EXCEPT !.keyword = <<>>],
        [confidentMatch EXCEPT !.answer = <<>>]}
Wraps == {"none", "fence", "prose"}
LlmReplies ==
  {[kind |-> "error"], [kind |-> "text", wrap |-> "none"],
   [kind |-> "text", wrap |-> "fence"], [kind |-> "null", wrap |-> "none"],
   [kind |-> "null", wrap |-> "prose"]}
  \cup {[kind |-> "object", wrap |-> "none", value |-> v] : v \in LlmObjects}
  \cup {[kind |-> "object", wrap |-> w, value |-> confidentMatch] : w \in Wraps}

\* cleanJsonResponse(response): the code fences are removed, and the text is
\* cut down to what lies between its first '{' and its last '}'.
cleanJsonResponse(response) ==
  IF response.wrap = "fence" THEN [response EXCEPT !.wrap = "none"]
  ELSE IF response.wrap = "prose" /\ response.kind = "object"
    THEN [response EXCEPT !.wrap = "none"]
  ELSE response

\* JSON.parse(text) returns a value.
Parses(response) == response.kind \in {"object", "null"} /\ response.wrap = "none"

\* result && result.keyword && result.answer
IndicatesMatch(response) ==
  /\ response.kind = "object"
  /\ response.value.keyword # <<>>
  /\ response.value.answer # <<>>

\* What refreshData() does to the keyword collection when a lookup calls it:
\* nothing (needsRefresh() is false, or the load fails), or a collection is
\* published.
Refreshes == {[kind |-> "kept"]} \cup {[kind |-> "loaded", table |-> t] : t \in Tables}
AfterRefresh(data, refresh) ==
  IF refresh.kind = "loaded" THEN refresh.table ELSE data

\* The terms findKeywordMatch looks for before its pass with threshold 0.05.
contactQueryTerms ==
  {<<"e", "m", "a", "i", "l">>, <<"e", "-", "m", "a", "i", "l">>, <<"@">>,
   <<"p", "h", "o", "n", "e">>, <<"t", "e", "l">>,
   <<"c", "o", "n", "t", "a", "c", "t">>}

\* findKeywordMatch(userMessage) once the collection is at hand.
keywordMatch(data, userMessage) ==
  LET first == findMatchingKeyword(data, userMessage, Score(3, 10))
      second == findMatchingKeyword(data, userMessage, Score(1, 10))
  IN IF first # NoMatch THEN first
     ELSE IF second # NoMatch THEN second
     ELSE IF \E term \in contactQueryTerms : includes(toLowerCase(userMessage), term)
       THEN findMatchingKeyword(data, userMessage, Score(1, 20))
     ELSE NoMatch

\* findKeywordMatch(userMessage): the match (NoMatch for null) and the
\* collection it leaves.  `available` is what googleSheetsService.isAvailable()
\* resolves with, `refresh` what the refresh it may make does.
findKeywordMatch(data, userMessage, available, refresh) ==
  IF ~available THEN [match |-> NoMatch, data |-> data, refreshed |-> FALSE]
  ELSE Bind(AfterRefresh(data, refresh), LAMBDA d :
         [match |-> keywordMatch(d, userMessage), data |-> d,
          refreshed |-> refresh.kind = "loaded"])

\* findBestAnswerWithAI with the keyword matcher left out: a response that
\* cannot be parsed gives null.
findBestAnswerWithAI_noKeywordMatch(source, data, userMessage, response, available, first, second) ==
  Bind(IF source = "sheets" THEN AfterRefresh(data, first) ELSE data, LAMBDA d :
    IF /\ response.kind # "error"
       /\ Parses(cleanJsonResponse(response)) /\ IndicatesMatch(response)
       /\ ~(source = "sheets" /\ Len(d) = 0)
      THEN [match |-> response.value, data |-> d,
            refreshed |-> source = "sheets" /\ first.kind = "loaded"]
      ELSE [match |-> NoMatch, data |-> d,
            refreshed |-> source = "sheets" /\ first.kind = "loaded"])

\* findBestAnswerWithAI(userMessage, source): the match (NoMatch for null)
\* and the collection it leaves.  `response` is what the LLM gives, `first`
\* the refresh made for the sheets source, `available` and `second` what
\* findKeywordMatch meets.
findBestAnswerWithAI(source, data, userMessage, response, available, first, second) ==
  Bind(IF source = "sheets" THEN AfterRefresh(data, first) ELSE data, LAMBDA d :
    IF source = "sheets" /\ Len(d) = 0
      THEN [match |-> NoMatch, data |-> d, refreshed |-> first.kind = "loaded"]
    ELSE IF response.kind = "error" \/ ~Parses(cleanJsonResponse(response))
      THEN Bind(findKeywordMatch(d, userMessage, available, second), LAMBDA found :
             [found EXCEPT !.refreshed =
                @ \/ (source = "sheets" /\ first.kind = "loaded")])
    ELSE [match |-> IF IndicatesMatch(response) THEN response.value ELSE NoMatch,
          data |-> d,
          refreshed |-> source = "sheets" /\ first.kind = "loaded"])

\* aiMatch && aiMatch.confidence > threshold, with the comparison weakened.
Accepted_atThreshold(match, threshold) ==
  /\ match # NoMatch
  /\ "confidence" \in DOMAIN match
  /\ match.confidence >= threshold

\* aiMatch && aiMatch.confidence > threshold: a match without a confidence
\* compares as undefined > threshold, which is false.
Accepted(match, threshold) ==
  /\ match # NoMatch
  /\ "confidence" \in DOMAIN match
  /\ match.confidence > threshold

\* The threshold of a source.
Threshold(source) == IF source = "docs" THEN docsThreshold ELSE sheetsThreshold

\* Steps 2 to 4 with the second attempt left out.
AfterRejection_primaryOnly(source, primarySource) == "fallback"

\* Steps 2 to 4: where processMessageDirect goes after the lookup in `source`
\* gave nothing it accepts.
AfterRejection(source, primarySource) ==
  IF source = "docs"
    THEN IF primarySource = "docs" THEN "sheets" ELSE "fallback"
    ELSE IF primarySource # "docs" THEN "docs" ELSE "fallback"

\* What generateAIResponse meets: whether geminiService.isAvailable() holds,
\* and the text generateResponse returns, or its failure.
GeneratedTexts ==
  {<<>>, <<"h", "e", "l", "l", "o", " ", "[", "a", "i", "]">>,
   <<"D", "o", "n", "e", "!">>}
Generated ==
  {[kind |-> "error"]} \cup {[kind |-> "text", text |-> t] : t \in GeneratedTexts}

\* process.env.DEFAULT_RESPONSE and botPersonality.defaultResponse: not set
\* (the empty text), or one of two texts.
sorryText == <<"S", "o", "r", "r", "y", ".">>
apologyWord == <<"U0E02", "U0E2D", "U0E2D", "U0E20", "U0E31", "U0E22">>
ConfiguredDefaults == {<<>>, sorryText, apologyWord}
\* botPersonality.language, process.env.DEFAULT_RESPONSE and
\* botPersonality.defaultResponse as a deployment sets them.
Settings ==
  {[language |-> "thai", configured |-> <<>>, personalityDefault |-> <<>>],
   [language |-> "thai", configured |-> apologyWord, personalityDefault |-> <<>>],
   [language |-> "english", configured |-> sorryText, personalityDefault |-> <<>>],
   [language |-> "english", configured |-> <<>>, personalityDefault |-> sorryText]}
\* The analysis results the handled messages come with.
HandledInputs ==
  {input \in AnalysisInputs :
     /\ input.questionType \in {"general", "price"}
     /\ input.intent = "general_inquiry"
     /\ input.isGeneral = ~input.isSpecific
     /\ input.confidence = 90
     /\ input.source # "text"}

\* What googleDocsService.searchContentSimple and the personality give
\* generateResponseFromGoogleDocs as its context.
contactLine ==
  <<"U0E15", "U0E34", "U0E14", "U0E15", "U0E48", "U0E2D", ":", " ", "c",
    "o", "n", "t", "a", "c", "t", "@", "e", "x", "a", "m", "p", "l", "e",
    ".", "c", "o", "m">>
Contexts == {<<>>, contactLine}

\* process.env.DEFAULT_RESPONSE || the built-in apology
EnvDefault(configured) == IF configured # <<>> THEN configured ELSE builtinApology
\* this.botPersonality?.defaultResponse || process.env.DEFAULT_RESPONSE || ...
PersonalityDefault(personalityDefault, configured) ==
  IF personalityDefault # <<>> THEN personalityDefault ELSE EnvDefault(configured)

\* generateAIResponse(userMessage, analysis): its try block returns the
\* default when Gemini is not available and the generated text otherwise;
\* its catch block returns the default.  It never throws.
generateAIResponseText(available, generated, configured) ==
  IF ~available THEN [threw |-> FALSE, value |-> EnvDefault(configured)]
  ELSE IF generated.kind = "error"
    THEN [threw |-> FALSE, value |-> EnvDefault(configured)]
  ELSE [threw |-> FALSE, value |-> generated.text]

\* The introduction formatDocsResponse puts before the content.
docsIntro ==
  <<"U0E02", "U0E49", "U0E2D", "U0E21", "U0E39", "U0E25", "U0E17", "U0E35",
    "U0E48", "U0E40", "U0E01", "U0E35", "U0E48", "U0E22", "U0E27", "U0E02",
    "U0E49", "U0E2D", "U0E07", "U0E01", "U0E31", "U0E1A", "U0E04", "U0E33",
    "U0E16", "U0E32", "U0E21", "U0E02", "U0E2D", "U0E07", "U0E04", "U0E38",
    "U0E13", ":", "\n", "\n">>
\* formatDocsResponse(content, userMessage)
formatDocsResponse(content) ==
  Bind(Run(content,
           Trim
           \o ReplaceFirst(Bos \o Lit(<<"*", "*">>) \o LazyStar(Dot)
                           \o Lit(<<"*", "*", ":">>) \o Star(WhiteSpace), <<>>)
           \o ReplaceFirst(Bos \o LazyStar(Dot) \o Lit(<<":">>) \o Star(WhiteSpace),
                           <<>>)),
       LAMBDA response :
         Bind(IF Len(response) > 800
                THEN SubSeq(response, 1, 800) \o <<".", ".", ".">>
                ELSE response,
              LAMBDA cut :
                IF Len(cut) >= Len(apologyWord)
                     /\ SubSeq(cut, 1, Len(apologyWord)) = apologyWord
                  THEN cut
                  ELSE docsIntro \o cut))

\* generateResponseFromGoogleDocs(userMessage, analysis)
generateResponseFromGoogleDocs(context, personalityDefault, configured) ==
  IF context # <<>> THEN formatDocsAnswer(formatDocsResponse(context))
  ELSE PersonalityDefault(personalityDefault, configured)

\* Steps 5 and 6: try { generateAIResponse } catch { generateResponseFromGoogleDocs }
aiResponseOf(available, generated, configured, context, personalityDefault) ==
  Bind(generateAIResponseText(available, generated, configured), LAMBDA result :
    IF result.threw
      THEN generateResponseFromGoogleDocs(context, personalityDefault, configured)
      ELSE result.value)

\* The replies processMessageDirect gives before the service is initialized.
startupApology ==
  <<"U0E02", "U0E2D", "U0E2D", "U0E20", "U0E31", "U0E22", "U0E04", "U0E48",
    "U0E30", " ", "U0E23", "U0E30", "U0E1A", "U0E1A", "U0E01", "U0E33",
    "U0E25", "U0E31", "U0E07", "U0E40", "U0E23", "U0E34", "U0E48", "U0E21",
    "U0E15", "U0E49", "U0E19", " ", "U0E01", "U0E23", "U0E38", "U0E13",
    "U0E32", "U0E25", "U0E2D", "U0E07", "U0E43", "U0E2B", "U0E21", "U0E48",
    "U0E2D", "U0E35", "U0E01", "U0E04", "U0E23", "U0E31", "U0E49", "U0E07">>

\* processMessageDirect up to the first lookup: the service not initialized
\* returns the default at once; otherwise the analysis of the message chooses
\* the primary source.  Two fields of `handling` keep what has been true of
\* the handling so far: `outage`, every call to a provider has failed, and
\* `held`, the keyword sheet has held the price entry.
StartHandling(userMessage, input, configured) ==
  /\ handling.pc \in {"idle", "done"}
  /\ isInitialized => configured = <<>>
  /\ IF ~isInitialized
       THEN /\ handling' = [pc |-> "done", message |-> userMessage,
                            primarySource |-> "", attempts |-> <<>>,
                            outage |-> FALSE, held |-> keywordsData = priceTable,
                            path |-> "startup",
                            reply |-> IF configured # <<>> THEN configured
                                      ELSE startupApology]
            /\ last' = [op |-> "startup", message |-> userMessage]
       ELSE \E analysis \in {enhancedMessageAnalysis(input)} :
              /\ handling' = [pc |-> determinePrimaryDataSource(analysis),
                              message |-> userMessage,
                              primarySource |-> determinePrimaryDataSource(analysis),
                              attempts |-> <<>>,
                              outage |-> input.classify = "error" /\ input.source = "error",
                              held |-> keywordsData = priceTable]
              /\ last' = [op |-> "analysis", message |-> userMessage,
                          classify |-> input.classify,
                          classification |-> analyzeMessageWithAI(input),
                          analysis |-> analysis,
                          primarySource |-> determinePrimaryDataSource(analysis)]
  /\ UNCHANGED <<chatVars, docsVars, sheetsVars, genVars, analysisVars, draft,
                 edgeVars>>

\* Steps 2 to 4: the lookup in one source, and the reply when its match is
\* accepted.
Search(source, response, available, first, second) ==
  /\ handling.pc = source
  /\ source = "docs" => first.kind = "kept"
  /\ first.kind = "loaded" => second.kind = "kept"
  /\ \E found \in {findBestAnswerWithAI(source, keywordsData, handling.message,
                                        response, available, first, second)} :
     \E accepted \in {Accepted(found.match, Threshold(source))} :
     \E outage \in {/\ handling.outage /\ response.kind = "error"
                    /\ ~available /\ first.kind = "kept"} :
     \E held \in {handling.held /\ found.data = priceTable} :
       /\ keywordsData' = found.data
       /\ lastUpdate' = IF found.refreshed THEN clock ELSE lastUpdate
       /\ IF accepted
            THEN handling' =
                   [pc |-> "done", message |-> handling.message,
                    primarySource |-> handling.primarySource,
                    attempts |-> Append(handling.attempts, source),
                    outage |-> outage, held |-> held,
                    path |-> source,
                    reply |-> IF source = "docs"
                                THEN formatDocsAnswer(found.match.answer)
                                ELSE cleanSheetsAnswer(found.match.answer)]
            ELSE handling' =
                   [handling EXCEPT !.pc = AfterRejection(source, handling.primarySource),
                                    !.attempts = Append(@, source),
                                    !.outage = outage, !.held = held]
       /\ last' = [op |-> "search", source |-> source, response |-> response,
                   available |-> available, match |-> found.match,
                   accepted |-> accepted, message |-> handling.message,
                   data |-> found.data]
  /\ UNCHANGED <<chatVars, docsVars, genVars, analysisVars, draft, edgeVars>>
  /\ UNCHANGED <<sheetsClient, range, sheetNames, loads>>

\* Steps 5 to 7: the generated response, formatted.
Fallback(available, generated, setting, context) ==
  /\ handling.pc = "fallback"
  /\ \E aiResponse \in {aiResponseOf(available, generated, setting.configured,
                                     context, setting.personalityDefault)} :
     \E reply \in {formatResponse(aiResponse, setting.language,
                                  PersonalityDefault(setting.personalityDefault,
                                                     setting.configured))} :
       /\ handling' = [pc |-> "done", message |-> handling.message,
                       primarySource |-> handling.primarySource,
                       attempts |-> handling.attempts,
                       outage |-> handling.outage /\ ~available /\ context = <<>>,
                       held |-> handling.held, path |-> "ai",
                       reply |-> reply]
       /\ last' = [op |-> "fallback", available |-> available,
                   generated |-> generated, setting |-> setting,
                   context |-> context, aiResponse |-> aiResponse,
                   reply |-> reply]
  /\ UNCHANGED <<chatVars, docsVars, sheetsVars, genVars, analysisVars, draft,
                 edgeVars>>

\* ------------------------------------------------------------- the service
\* The state the ChatbotService constructor leaves, initialize() having
\* started.
ChatInit ==
  /\ now = 0
  /\ isInitialized = FALSE
  /\ initPc = "running"
  /\ cleanupTimer = 0
  /\ userSessions = <<>>
  /\ messageQueue = <<>>
  /\ isProcessing = FALSE
  /\ workers = 0
  /\ inFlight = {}
  /\ nextId = 0
  /\ pending = {}
  /\ invoked = <<>>
  /\ shed = {}
  /\ burst = 0
  /\ last = NoOp

\* The state after construction of the service and of the services it uses.
Init ==
  ChatInit /\ DocsInit /\ SheetsInit /\ GeminiInit /\ AnalysisInit /\ ReplyInit

\* initialize() reaches the end of its try block: the flag is set and the
\* ten-minute cleanup interval is installed.
InitializeDone ==
  /\ initPc = "running"
  /\ initPc' = "done"
  /\ isInitialized' = TRUE
  /\ cleanupTimer' = now + cleanupInterval
  /\ last' = [op |-> "initialize"]
  /\ UNCHANGED dataVars
  /\ UNCHANGED <<now, sessionVars, queueVars>>

\* initialize() ends in its catch block: no flag, no interval.
InitializeFailed ==
  /\ initPc = "running"
  /\ initPc' = "done"
  /\ isInitialized' = FALSE
  /\ cleanupTimer' = 0
  /\ last' = [op |-> "initializeFailed"]
  /\ UNCHANGED dataVars
  /\ UNCHANGED <<now, sessionVars, queueVars>>

\* Five minutes pass.  An interval that is due fires before more time passes.
Tick ==
  /\ now < MaxTime
  /\ cleanupTimer = 0 \/ now < cleanupTimer
  /\ now' = now + 1
  /\ last' = [op |-> "tick"]
  /\ UNCHANGED dataVars
  /\ UNCHANGED <<initVars, sessionVars, queueVars>>

\* The interval callback made to wait for the worker: it runs only while no
\* message is being handled.
TimerCleanup_whenIdle ==
  /\ cleanupTimer # 0
  /\ now >= cleanupTimer
  /\ ~isProcessing /\ inFlight = {}
  /\ userSessions' = cleanupExpiredSessions(userSessions, now)
  /\ cleanupTimer' = cleanupTimer + cleanupInterval
  /\ last' = [op |-> "cleanup"]
  /\ UNCHANGED dataVars
  /\ UNCHANGED <<now, isInitialized, initPc, queueVars>>

\* The interval callback installed by initialize(): cleanupExpiredSessions().
TimerCleanup ==
  /\ cleanupTimer # 0
  /\ now >= cleanupTimer
  /\ userSessions' = cleanupExpiredSessions(userSessions, now)
  /\ cleanupTimer' = cleanupTimer + cleanupInterval
  /\ last' = [op |-> "cleanup"]
  /\ UNCHANGED dataVars
  /\ UNCHANGED <<now, isInitialized, initPc, queueVars>>

\* A call of getUserSession(userId) on its own.
GetUserSession(userId) ==
  /\ LET got == getUserSession(userSessions, userId, now)
     IN /\ userSessions' = got.sessions
        /\ last' = [op |-> "get", userId |-> userId, result |-> got.result,
                    found |-> userId \in DOMAIN userSessions]
  /\ UNCHANGED dataVars
  /\ UNCHANGED <<now, initVars, queueVars>>

\* The objects a caller can pass to setUserSession: any of the session's
\* properties may be left out.
CountValues == {1, 2}
SessionData ==
  {<<>>} \cup [lastMessage : Messages] \cup [messageCount : CountValues]
         \cup [lastMessage : Messages, messageCount : CountValues]

\* A call of setUserSession(userId, data) on its own.
SetUserSession(userId, data) ==
  /\ userSessions' = setUserSession(userSessions, userId, data, now)
  /\ last' = [op |-> "set", userId |-> userId, data |-> data,
              had |-> IF userId \in DOMAIN userSessions
                        THEN DOMAIN userSessions[userId] ELSE {}]
  /\ UNCHANGED dataVars
  /\ UNCHANGED <<now, initVars, queueVars>>

\* A call of cleanupExpiredSessions() on its own.
CleanupExpiredSessions ==
  /\ userSessions' = cleanupExpiredSessions(userSessions, now)
  /\ last' = [op |-> "cleanup"]
  /\ UNCHANGED dataVars
  /\ UNCHANGED <<now, initVars, queueVars>>

\* A counter that starts again with every message.
NextMessageCount_fresh(result) == 1

\* messageCount: (this.getUserSession(userId)?.messageCount || 0) + 1
NextMessageCount(result) ==
  IF result = {} THEN 1
  ELSE LET session == CHOOSE x \in result : TRUE IN
       IF "messageCount" \in DOMAIN session THEN session.messageCount + 1 ELSE 1

\* processMessage that updates the session of an admitted message only.
processMessage_touchIfAdmitted(userId, message, doCleanup) ==
  /\ nextId < MaxRequests
  /\ LET id == nextId + 1
         swept == IF doCleanup THEN cleanupExpiredSessions(userSessions, now)
                  ELSE userSessions
         got == getUserSession(swept, userId, now)
         data == [lastMessage |-> message,
                  messageCount |-> NextMessageCount(got.result)]
         full == QueueFull(messageQueue)
         future == IF full THEN [state |-> "resolved", value |-> QueueFullApology]
                   ELSE [state |-> "pending", value |-> "-"]
     IN /\ nextId' = id
        /\ userSessions' = IF full THEN swept
                           ELSE setUserSession(got.sessions, userId, data, now)
        /\ addToQueue(id, userId, message)
        /\ burst' = IF burst >= 0 THEN burst + 1 ELSE burst
        /\ last' = [op |-> "processMessage", id |-> id, userId |-> userId,
                    message |-> message,
                    admitted |-> id \in pending', lengthBefore |-> Len(messageQueue),
                    future |-> future, reply |-> processMessageReturn(future)]
  /\ UNCHANGED dataVars
  /\ UNCHANGED <<now, initVars>>

\* processMessage(userMessage, userId) up to its await: the occasional cleanup
\* (Math.random() < 0.1), the session update, and addToQueue.
processMessage(userId, message, doCleanup) ==
  /\ nextId < MaxRequests
  /\ LET id == nextId + 1
         swept == IF doCleanup THEN cleanupExpiredSessions(userSessions, now)
                  ELSE userSessions
         got == getUserSession(swept, userId, now)
         data == [lastMessage |-> message,
                  messageCount |-> NextMessageCount(got.result)]
         full == QueueFull(messageQueue)
         future == IF full THEN [state |-> "resolved", value |-> QueueFullApology]
                   ELSE [state |-> "pending", value |-> "-"]
     IN /\ nextId' = id
        /\ userSessions' = setUserSession(got.sessions, userId, data, now)
        /\ addToQueue(id, userId, message)
        /\ burst' = IF burst >= 0 THEN burst + 1 ELSE burst
        /\ last' = [op |-> "processMessage", id |-> id, userId |-> userId,
                    message |-> message,
                    admitted |-> id \in pending', lengthBefore |-> Len(messageQueue),
                    future |-> future, reply |-> processMessageReturn(future)]
  /\ UNCHANGED dataVars
  /\ UNCHANGED <<now, initVars>>

\* The worker resumes after `await this.processMessageDirect(...)` for `item`:
\* the promise of that item is settled and the loop goes on.
Complete(item, outcome) ==
  /\ item \in inFlight
  /\ LET future == SettleFuture(outcome)
     IN /\ pending' = pending \ {item.id}
        /\ AfterSettle(outcome, messageQueue, isProcessing, inFlight \ {item}, workers)
        /\ last' = [op |-> "complete", id |-> item.id, userId |-> item.userId,
                    outcome |-> outcome, behind |-> Len(messageQueue),
                    future |-> future, reply |-> processMessageReturn(future)]
  /\ burst' = IF messageQueue' = <<>> /\ inFlight' = {} /\ ~isProcessing' THEN 0 ELSE -1
  /\ UNCHANGED dataVars
  /\ UNCHANGED <<now, initVars, sessionVars, nextId, shed>>

Next ==
  \/ InitializeDone
  \/ InitializeFailed
  \/ Tick
  \/ TimerCleanup
  \/ \E u \in Users, m \in Messages, c \in BOOLEAN : processMessage(u, m, c)
  \/ \E item \in inFlight : \E outcome \in Outcomes(item) : Complete(item, outcome)

Spec == Init /\ [][Next]_vars

\* The request sequencer on its own: messages arrive and are handled while the
\* clock stands still.
SequencerNext ==
  \/ InitializeDone
  \/ InitializeFailed
  \/ \E u \in Users, m \in Messages, c \in BOOLEAN : processMessage(u, m, c)
  \/ \E item \in inFlight : \E outcome \in Outcomes(item) : Complete(item, outcome)

SequencerSpec == Init /\ [][SequencerNext]_vars

\* The session registry on its own: its three methods called in any order as
\* time passes, and the cleanup interval.
RegistryNext ==
  \/ InitializeDone
  \/ InitializeFailed
  \/ Tick
  \/ TimerCleanup
  \/ \E u \in Users : GetUserSession(u)
  \/ \E u \in Users : \E data \in SessionData : SetUserSession(u, data)
  \/ CleanupExpiredSessions

RegistrySpec == Init /\ [][RegistryNext]_vars

\* The document store on its own: its callers, the provider and the clock.
DocsNext ==
  \/ DocsInitialize
  \/ ClockTick
  \/ \E c \in Callers, f \in BOOLEAN : getDocumentContent(c, f)
  \/ \E id \in PendingFetches : \E content \in Contents : LoadSucceeds(id, content)
  \/ \E id \in PendingFetches : LoadFails(id)
  \/ \E c \in Callers : ResumeCall(c)

DocsSpec == Init /\ [][DocsNext]_vars

\* The messages a reader looks up while the table is being refreshed.
ReaderMessages == {<<"a">>, <<"A", "b", " ">>, <<"a", "b">>}

\* The keyword table on its own: the initial load, the refresh timer, the
\* provider and a reader.
SheetsNext ==
  \/ \E setting \in RangeSettings : SheetsInitialize(setting)
  \/ \E l \in Loaders : StartLoad(l)
  \/ \E l \in Loaders : \E names \in SheetTitles : NamesReturn(l, names)
  \/ \E l \in Loaders : \E rows \in PageRows : RangeReturn(l, rows)
  \/ \E l \in Loaders : RangeFails(l)
  \/ \E l \in Loaders : \E rows \in PageRows : SheetReturn(l, rows)
  \/ \E l \in Loaders : SheetFails(l)
  \/ \E m \in ReaderMessages : \E t \in Thresholds : FindMatch(m, t)

SheetsSpec == Init /\ [][SheetsNext]_vars

\* The refresh timer racing a reader: refreshData() reloads the document
\* through getBotPersonality() -> getDocumentContent() and the keyword table
\* through loadKeywordsData(), while a request reads both.
RefreshNext ==
  \/ DocsInitialize
  \/ getDocumentContent("timer", FALSE)
  \/ \E id \in PendingFetches : \E content \in Contents : LoadSucceeds(id, content)
  \/ \E id \in PendingFetches : LoadFails(id)
  \/ ResumeCall("timer")
  \/ SheetsInitialize("ALL_SHEETS")
  \/ StartLoad("timer")
  \/ \E l \in Loaders : NamesReturn(l, <<"s1", "s2">>)
  \/ \E l \in Loaders : \E rows \in PageRows : SheetReturn(l, rows)
  \/ \E l \in Loaders : SheetFails(l)
  \/ ReadSnapshot

RefreshSpec == Init /\ [][RefreshNext]_vars

\* findMatchingKeyword on its own, over every collection of the pool.
MatcherInit ==
  ChatInit /\ DocsInit /\ LoadedInit /\ GeminiInit /\ AnalysisInit /\ ReplyInit

MatcherNext == \E m \in MessagePool : \E t \in Thresholds : FindMatch(m, t)

MatcherSpec == MatcherInit /\ [][MatcherNext]_vars

\* GeminiService.generateResponse on its own.
GeminiNext ==
  \/ generateResponse
  \/ \E text \in GenTexts : RequestReturns(text)
  \/ \E error \in GenErrors : RequestFails(error)
  \/ RetryTimer

GeminiSpec == Init /\ [][GeminiNext]_vars

\* The same with every request answered or failed in the end and every backoff
\* timer firing.
GeminiFairSpec ==
  /\ GeminiSpec
  /\ WF_vars(\E text \in GenTexts : RequestReturns(text))
  /\ WF_vars(\E error \in GenErrors : RequestFails(error))
  /\ WF_vars(RetryTimer)

\* The choice of the primary source on its own, over every analysis result.
SelectionInit ==
  /\ ChatInit /\ DocsInit /\ SheetsInit /\ GeminiInit /\ ReplyInit
  /\ analysisInput \in AnalysisInputs

SelectionNext ==
  \/ SelectPrimary
  \/ \E input \in AnalysisInputs : NextMessage(input)

SelectionSpec == SelectionInit /\ [][SelectionNext]_vars

\* processMessageDirect on its own: one message after another, against a
\* keyword sheet that is empty or holds the price entry.
OrchestratorInit ==
  /\ ChatInit /\ DocsInit /\ GeminiInit /\ AnalysisInit /\ ReplyInit
  /\ sheetsClient = "client"
  /\ range = "Sheet1!B:C"
  /\ sheetNames = <<"Sheet1">>
  /\ keywordsData \in Tables
  /\ lastUpdate = 1
  /\ loads = [l \in Loaders |-> NotLoading]

OrchestratorNext ==
  \/ InitializeDone
  \/ \E userMessage \in HandledMessages : \E input \in HandledInputs :
       \E configured \in ConfiguredDefaults :
         StartHandling(userMessage, input, configured)
  \/ \E source \in {"docs", "sheets"} : \E response \in LlmReplies :
       \E available \in BOOLEAN : \E first \in Refreshes : \E second \in Refreshes :
         Search(source, response, available, first, second)
  \/ \E available \in BOOLEAN : \E generated \in Generated :
       \E setting \in Settings : \E context \in Contexts :
         Fallback(available, generated, setting, context)

OrchestratorSpec == OrchestratorInit /\ [][OrchestratorNext]_vars

\* The timers beside the request sequencer: the session sweep, the refresh
\* of the keyword sheet by the refresh timer, and the messages of one user.
BackgroundInit ==
  /\ ChatInit /\ DocsInit /\ GeminiInit /\ AnalysisInit /\ ReplyInit
  /\ sheetsClient = "client"
  /\ range = "Sheet1!B:C"
  /\ sheetNames = <<"Sheet1">>
  /\ keywordsData = <<>>
  /\ lastUpdate = 0
  /\ loads = [l \in Loaders |-> NotLoading]

\* Bound: the time up to which the timers are followed beside the sequencer.
BackgroundHorizon == 3

\* A pending request of the refresh comes back: the sheet titles, and the
\* rows of the range or its failure.
RefreshStep ==
  \/ NamesReturn("timer", <<"s1">>)
  \/ \E rows \in {r \in PageRows : Len(r) = 0 \/ r[1].keyword = <<"a">>} :
       RangeReturn("timer", rows)
  \/ RangeFails("timer")

\* The worker resumes after the handling of a message, which gave the
\* generated answer or raised an exception.
WorkerStep ==
  \E item \in inFlight :
    \E outcome \in {Orchestrate(item, env) :
                      env \in {e \in Envs : /\ ~e.thrown /\ e.gen /\ e.primary = "docs"
                                            /\ e.docs = -1 /\ e.sheets = -1}} :
      Complete(item, outcome)

\* Five minutes pass, within the horizon.
EarlyTick == now < BackgroundHorizon /\ Tick

BackgroundNext ==
  \/ InitializeDone
  \/ EarlyTick
  \/ TimerCleanup
  \/ StartLoad("timer")
  \/ RefreshStep
  \/ processMessage("u1", "m1", FALSE)
  \/ WorkerStep

BackgroundSpec == BackgroundInit /\ [][BackgroundNext]_vars

\* The formatting of replies on its own, over every draft of the pool.
FormatNext ==
  \/ \E text \in Drafts : \E language \in Languages : NextDraft(text, language)
  \/ DeliverDocs
  \/ DeliverSheets
  \/ DeliverAi

FormatSpec == Init /\ [][FormatNext]_vars

\* =================================================================== claims
\* ---------------------------------------------------------------------- C1
\* C1: at no instant are two processMessageDirect invocations in progress, and
\* at most one draining worker exists, whatever addToQueue calls arrive while
\* a request is being processed.
C1_OneOrchestrationAtATime == Cardinality(inFlight) <= 1 /\ workers <= 1

\* A request was admitted while another one was being processed.
C1_Witness ==
  /\ last.op = "processMessage"
  /\ last.admitted
  /\ Len(messageQueue) >= 1
  /\ Cardinality(inFlight) = 1

\* ---------------------------------------------------------------------- C2
\* C2: admitted requests reach processMessageDirect in the order in which they
\* were enqueued (ids are given in enqueue order): the invocation order is
\* increasing, the queue is increasing, and everything queued was enqueued
\* after everything invoked.
C2_InvokedInEnqueueOrder ==
  /\ \A i, j \in 1..Len(invoked) : i < j => invoked[i] < invoked[j]
  /\ \A i, j \in 1..Len(messageQueue) : i < j => messageQueue[i].id < messageQueue[j].id
  /\ \A a \in InvokedIds, b \in QueueIds : a < b

\* Three requests were invoked, the last of them taken from behind a request
\* of another user that the worker had just finished.
C2_Witness ==
  /\ Len(invoked) >= 3
  /\ last.op = "complete"
  /\ last.behind >= 1
  /\ \E x \in inFlight : x.userId # last.userId

\* ---------------------------------------------------------------------- C3
\* C3: the queue never holds more than maxQueueSize requests; a request that
\* arrives when the queue holds maxQueueSize is answered at once with the
\* system-busy apology, leaves the queue as it was, and is never queued,
\* invoked or retried.
C3_AdmissionControl ==
  /\ Len(messageQueue) <= maxQueueSize
  /\ shed \cap (QueueIds \cup FlightIds \cup InvokedIds \cup pending) = {}
  /\ (last.op = "processMessage" /\ last.lengthBefore >= maxQueueSize) =>
       /\ ~last.admitted
       /\ last.id \in shed
       /\ last.future = [state |-> "resolved", value |-> QueueFullApology]
       /\ last.reply = [state |-> "resolved", value |-> QueueFullApology]
       /\ Len(messageQueue) = last.lengthBefore

\* A request was turned away.
C3_Witness == last.op = "processMessage" /\ last.lengthBefore >= maxQueueSize

\* ---------------------------------------------------------------------- C4
\* C4: the promise of an admitted request stays pending until its own
\* processMessageDirect call is over and is then resolved with the value
\* returned, or rejected if an exception was raised; after an exception the
\* worker goes on with the requests queued behind.
C4_SettledByOwnOutcome ==
  /\ pending = QueueIds \cup FlightIds
  /\ Len(messageQueue) > 0 => (workers >= 1 /\ inFlight # {})
  /\ last.op = "complete" =>
       /\ last.id \notin pending
       /\ last.outcome.kind = "returned" =>
            last.future = [state |-> "resolved", value |-> last.outcome.value]
       /\ last.outcome.kind = "raised" => last.future.state = "rejected"
       /\ last.behind > 0 =>
            /\ Len(messageQueue) = last.behind - 1
            /\ \E x \in inFlight : x.id = invoked[Len(invoked)] /\ x.id > last.id

\* An exception was raised for a request that had others queued behind it.
C4_Witness ==
  /\ last.op = "complete"
  /\ last.outcome.kind = "raised"
  /\ last.behind > 0

\* ---------------------------------------------------------------------- C5
\* C5 as claimed: of maxQueueSize + 1 requests enqueued from an idle, empty
\* sequencer with no completion in between, the last one is answered at once
\* with the apology and the queue length stays at maxQueueSize.
C5_ShedAtMaxPlusOne ==
  (last.op = "processMessage" /\ burst = maxQueueSize + 1) =>
    /\ ~last.admitted
    /\ last.reply = [state |-> "resolved", value |-> QueueFullApology]
    /\ Len(messageQueue) = maxQueueSize

\* C5 as amended: the worker takes the first request out of the queue at once,
\* so the first maxQueueSize + 1 requests are all admitted; it is the
\* (maxQueueSize + 2)-th that is answered at once with the apology, the queue
\* length staying at maxQueueSize.
C5_ShedAtMaxPlusTwo ==
  last.op = "processMessage" =>
    /\ (burst >= 1 /\ burst <= maxQueueSize + 1) => last.admitted
    /\ burst = maxQueueSize + 1 => Len(messageQueue) = maxQueueSize
    /\ burst = maxQueueSize + 2 =>
         /\ ~last.admitted
         /\ last.reply = [state |-> "resolved", value |-> QueueFullApology]
         /\ Len(messageQueue) = maxQueueSize

\* The (maxQueueSize + 2)-th request of such a burst has arrived.
C5_Witness == last.op = "processMessage" /\ burst = maxQueueSize + 2

\* ---------------------------------------------------------------------- C6
\* C6: whatever the providers do, processMessage never rejects: its promise is
\* resolved with an answer derived from the providers' content or with one of
\* the fixed apology / default strings, never with the text of an exception.
C6_NeverRejects ==
  (last.op \in {"processMessage", "complete"} /\ last.reply.state # "pending") =>
    /\ last.reply.state = "resolved"
    /\ last.reply.value \in ContextAnswers \cup Apologies
    /\ last.reply.value # TechnicalError

\* An exception left the worker's try block and the caller still got a reply.
C6_Witness ==
  /\ last.op = "complete"
  /\ last.outcome.kind = "raised"
  /\ last.reply.state = "resolved"

\* Age of the session stored for u.
Age(u) == now - userSessions[u].timestamp

\* ---------------------------------------------------------------------- C7
\* C7 as claimed: in every state, every stored session was touched no more
\* than sessionTimeout ago.
C7_NeverHeldPastTimeout == \A u \in DOMAIN userSessions : Age(u) <= sessionTimeout

\* C7 as amended: expiry is lazy.  Right after a run of
\* cleanupExpiredSessions every stored session was touched no more than
\* sessionTimeout ago; between two runs a session stays stored past
\* sessionTimeout until a cleanup or a lookup of its user removes it.
C7_FreshAfterCleanup ==
  last.op = "cleanup" => \A u \in DOMAIN userSessions : Age(u) <= sessionTimeout

\* A cleanup has run over a session that is exactly sessionTimeout old.
C7_Witness ==
  /\ last.op = "cleanup"
  /\ \E u \in DOMAIN userSessions : Age(u) = sessionTimeout

\* ---------------------------------------------------------------------- C8
\* C8: getUserSession returns the stored session exactly when it was touched
\* less than sessionTimeout ago, leaving the map alone; otherwise it returns
\* null and the user has no session afterwards.  Nothing but a new touch
\* changes a session before its timeout has passed, so a session touched at T0
\* is retrievable at every time before T0 + sessionTimeout and not afterwards.
C8_LazyExpiry ==
  [][\A u \in Users :
       /\ (last'.op = "get" /\ last'.userId = u) =>
            IF u \in DOMAIN userSessions /\ Age(u) < sessionTimeout
              THEN last'.result = {userSessions[u]} /\ userSessions' = userSessions
              ELSE /\ last'.result = {}
                   /\ u \notin DOMAIN userSessions'
                   /\ \A v \in DOMAIN userSessions \ {u} :
                        v \in DOMAIN userSessions' /\ userSessions'[v] = userSessions[v]
       /\ (/\ u \in DOMAIN userSessions
           /\ now' - userSessions[u].timestamp < sessionTimeout
           /\ ~(last'.op = "set" /\ last'.userId = u)) =>
            u \in DOMAIN userSessions' /\ userSessions'[u] = userSessions[u]
    ]_vars

\* A lookup found a session that had expired, and removed it.
C8_Witness ==
  /\ last.op = "get"
  /\ last.found
  /\ last.result = {}
  /\ last.userId \notin DOMAIN userSessions

\* ---------------------------------------------------------------------- C9
\* C9: after cleanupExpiredSessions has run, no session touched sessionTimeout
\* ago or longer (boundary included) is left in the map.
C9_CleanupRemovesExpired ==
  last.op = "cleanup" => \A u \in DOMAIN userSessions : Age(u) < sessionTimeout

C11_SecondCallUsesCache ==
  [][(/\ last'.op = "getDocumentContent"
      /\ ~last'.forceRefresh
      /\ contentCache # Null
      /\ cacheTimestamp # NoTimestamp
      /\ clock - cacheTimestamp < cacheExpiry) =>
       /\ last'.path = "cached"
       /\ last'.outcome = [kind |-> "returned", value |-> contentCache]
       /\ fetches' = fetches
    ]_vars

\* --------------------------------------------------------------------- C12
\* C12 as claimed: at most one fetch is in flight, and every caller that
\* arrives while one is in flight, forcing a refresh or not, waits for that
\* fetch and starts none.
C12_EveryCallerShares ==
  [][/\ Cardinality(PendingFetches') <= 1
     /\ (last'.op = "getDocumentContent" /\ last'.pendingBefore # {}) =>
          last'.path = "wait" /\ last'.promise \in last'.pendingBefore
    ]_vars

\* C12 as amended: at most one fetch is in flight, and a caller that arrives
\* while one is in flight never starts another.  It waits for that fetch and
\* receives its result, except that a caller without forceRefresh that finds a
\* cached text younger than cacheExpiry returns that cached text at once
\* instead of the result of the fetch in flight.
C12_NoSecondFetch ==
  [][/\ Cardinality(PendingFetches') <= 1
     /\ (last'.op = "getDocumentContent" /\ last'.pendingBefore # {}) =>
          /\ fetches' = fetches
          /\ IF CacheValid(last'.forceRefresh, contentCache, cacheTimestamp, clock)
               THEN last'.path = "cached" /\ last'.outcome.value = contentCache
               ELSE last'.path = "wait" /\ last'.promise \in last'.pendingBefore
     /\ (last'.op = "resumeCall") =>
          last'.outcome = Settled(fetches[last'.promise])
    ]_vars

\* A caller forcing a refresh arrived while a fetch was in flight and waits
\* for it.
C12_Witness ==
  /\ last.op = "getDocumentContent"
  /\ last.forceRefresh
  /\ last.pendingBefore # {}
  /\ last.path = "wait"

C14_NoPartialRefresh ==
  [][/\ (keywordsData' # keywordsData) =>
          /\ last'.op \in {"loadDone", "loadFailed"}
          /\ keywordsData' = last'.loaded
          /\ loads'[last'.loader] = NotLoading
          /\ last'.op = "loadDone" => last'.loaded = Collect(last'.pages, <<>>)
     /\ (contentCache' # contentCache \/ cacheTimestamp' # cacheTimestamp) =>
          /\ last'.op = "loadSucceeds"
          /\ contentCache' = fetches'[last'.promise].value
          /\ cacheTimestamp' = clock
     /\ (last'.op = "read") =>
          /\ last'.keywords = keywordsData
          /\ last'.text = contentCache /\ last'.stamp = cacheTimestamp
    ]_vars

\* A reader ran while a load had fetched a page with rows and had more to
\* fetch; the collection it saw holds none of that load's partial result.
C14_Witness ==
  /\ last.op = "read"
  /\ \E l \in Loaders :
       /\ loads[l].pc = "sheet"
       /\ Len(loads[l].pages) >= 1
       /\ Collect(loads[l].pages, <<>>) # <<>>
       /\ last.keywords # Collect(loads[l].pages, <<>>)

\* --------------------------------------------------------------------- C15
\* C15: when a load ends, the live collection holds the rows of every page
\* whose fetch succeeded and nothing else, so a page whose fetch failed costs
\* only its own rows; when the load fails as a whole the collection is empty.
C15_FailedPageSkipped ==
  /\ last.op = "loadDone" =>
       /\ \A p \in 1..Len(last.pages) :
            last.pages[p].ok =>
              \A r \in 1..Len(last.pages[p].rows) :
                \E j \in 1..Len(keywordsData) :
                  /\ keywordsData[j].sheet = last.pages[p].sheet
                  /\ keywordsData[j].keyword = last.pages[p].rows[r].keyword
                  /\ keywordsData[j].answer = last.pages[p].rows[r].answer
       /\ \A j \in 1..Len(keywordsData) :
            \E p \in 1..Len(last.pages) :
              /\ last.pages[p].ok
              /\ keywordsData[j].sheet = last.pages[p].sheet
              /\ \E r \in 1..Len(last.pages[p].rows) :
                   keywordsData[j].keyword = last.pages[p].rows[r].keyword
       /\ (\A p \in 1..Len(last.pages) : ~last.pages[p].ok) => keywordsData = <<>>
  /\ last.op = "loadFailed" => keywordsData = <<>>

\* A load ended in which the first page failed and the second page gave rows:
\* those rows are in the collection.
C15_Witness ==
  /\ last.op = "loadDone"
  /\ Len(last.pages) = 2
  /\ ~last.pages[1].ok
  /\ last.pages[2].ok /\ last.pages[2].rows # <<>>
  /\ keywordsData # <<>>

\* --------------------------------------------------------------------- C16
\* C16: a findMatchingKeyword call made right after a load ended, with a
\* message equal to a non-empty keyword of the collection that load built,
\* returns a match.
C16_VisibleAfterRefresh ==
  (/\ last.op = "find"
   /\ last.justLoaded
   /\ last.message # <<>>
   /\ \E i \in 1..Len(last.loaded) : last.loaded[i].keyword = last.message) =>
    last.result # NoMatch

\* Such a lookup happened and found the keyword of the just-loaded data.
C16_Witness ==
  /\ last.op = "find"
  /\ last.justLoaded
  /\ \E i \in 1..Len(last.loaded) :
       /\ last.loaded[i].keyword = last.message
       /\ last.result # NoMatch
       /\ last.result.keyword = last.message

ContactMatchTypes == {"email_specific", "phone_specific", "contact_term"}

\* --------------------------------------------------------------------- C17
\* C17: whatever the collection and the order of its entries, a lookup with a
\* message that equals a non-empty keyword of the collection after lower-casing
\* and trimming returns the entry with that keyword as an exact match with
\* score 1.0.
C17_EqualKeywordIsExactMatch ==
  last.op = "find" =>
    \A i \in 1..Len(last.data) :
      (/\ last.data[i].keyword # <<>>
       /\ trim(toLowerCase(last.message)) = KeywordOf(last.data[i])) =>
        /\ last.result # NoMatch
        /\ last.result.score = Score(1, 1)
        /\ trim(toLowerCase(last.result.keyword)) = KeywordOf(last.data[i])

\* --------------------------------------------------------------------- C18
\* C18 as claimed: every match returned that is not an email, phone or contact
\* match has a score of at least the threshold of the call.
C18_MatchClearsThreshold ==
  (last.op = "find" /\ last.result # NoMatch
     /\ last.result.matchType \notin ContactMatchTypes) =>
    ScoreGE(last.result.score, last.threshold)

\* C18 as amended: only the word-overlap pass compares with the threshold.  A
\* word-overlap match has a score of at least the threshold; an exact match has
\* 1.0 and a containment match 0.9 whatever the threshold; and the
\* character-similarity pass returns its match with the fixed score 0.4
\* whatever the threshold, so with the default threshold 0.6 a returned match
\* can score below the threshold without being a contact match.
C18_WordMatchClearsThreshold ==
  (last.op = "find" /\ last.result # NoMatch) =>
    /\ last.result.matchType = "word_match" =>
         ScoreGE(last.result.score, last.threshold)
    /\ last.result.matchType = "exact" => last.result.score = Score(1, 1)
    /\ last.result.matchType = "partial" => last.result.score = Score(9, 10)
    /\ last.result.matchType = "fuzzy" => last.result.score = Score(4, 10)
    /\ ~ScoreGE(last.result.score, last.threshold) =>
         last.result.matchType \in ContactMatchTypes \cup {"fuzzy"}

\* A lookup whose only overlap with the collection scores below the threshold
\* returned a character-similarity match below the threshold or no
\* word-overlap match.
C18_Witness ==
  /\ last.op = "find"
  /\ last.threshold = Score(6, 10)
  /\ \E i \in 1..Len(last.data) :
       /\ last.data[i].keyword # <<>>
       /\ LET score == wordScore(split(trim(toLowerCase(last.message))),
                                 split(KeywordOf(last.data[i])))
          IN score.num > 0 /\ ~ScoreGE(score, last.threshold)
  /\ last.result.matchType # "word_match"

\* --------------------------------------------------------------------- C19
\* What a generateResponse call that ended, or is under way, has done: at most
\* maxRetries requests; every error but the last one seen was a quota error;
\* the i-th wait was retryDelay * i and followed the i-th quota error.
C19_CallShape(requests, errors, waits) ==
  /\ requests <= maxRetries
  /\ \A i \in 1..(Len(errors) - 1) : errors[i] = "429"
  /\ Len(waits) <= maxRetries - 1
  /\ \A i \in 1..Len(waits) : waits[i] = retryDelay * i /\ errors[i] = "429"

C19_Bounded ==
  /\ genCall # NoCall =>
       /\ C19_CallShape(genCall.requests, genCall.errors, genCall.waits)
       /\ genCall.requests = Len(genCall.waits) + (IF genCall.pc = "waiting" THEN 0 ELSE 1)
  /\ \A i \in 1..Len(genLog) :
       /\ C19_CallShape(genLog[i].requests, genLog[i].errors, genLog[i].waits)
       /\ genLog[i].requests = Len(genLog[i].waits) + 1
       /\ genLog[i].kind = "returned" => Len(genLog[i].errors) = genLog[i].requests - 1
       /\ genLog[i].kind = "raised" =>
            /\ Len(genLog[i].errors) = genLog[i].requests
            /\ IF genLog[i].errors[genLog[i].requests] = "429"
                 THEN genLog[i].requests = maxRetries /\ genLog[i].value = "quota"
                 ELSE genLog[i].value = "other"

C20_SourceFollowsQuestionType ==
  last.op = "select" =>
    IF last.analysis.aiAnalysis.questionType = "general"
      THEN last.primarySource = "sheets"
      ELSE last.primarySource = "docs"

\* --------------------------------------------------------------------- C26
\* C26: when an answer taken from the document holds 'contact@example.com',
\* the reply holds '[contact@example.com](mailto:contact@example.com)': the
\* address is wrapped once and no later formatting step alters it.
C26_EmailBecomesLink ==
  (/\ last.op = "deliver"
   /\ last.path \in {"docs", "ai"}
   /\ includes(last.answer, contactEmail))
    => includes(last.reply, contactLink)

\* --------------------------------------------------------------------- C27
\* C27: when the text to deliver ends with the marker [ai] or [keyword], the
\* reply does not hold that marker, on every path and for every language.
C27_TrailingTagRemoved ==
  last.op = "deliver" =>
    \A tag \in {tagAi, tagKeyword} :
      endsWith(last.answer, tag) => ~includes(last.reply, tag)

\* --------------------------------------------------------------------- C21
\* C21: a match found by findBestAnswerWithAI becomes the reply only if its
\* confidence is strictly above the threshold of the source it was looked up
\* in, 60 for the document and 70 for the keyword sheet; a match at or below
\* the threshold, or without a confidence, is never returned.
C21_AcceptedAboveThreshold ==
  /\ (handling.pc = "done" /\ handling.path \in {"docs", "sheets"}) =>
       /\ last.op = "search" /\ last.source = handling.path
       /\ "confidence" \in DOMAIN last.match
       /\ last.match.confidence >
            (IF handling.path = "docs" THEN docsThreshold ELSE sheetsThreshold)
  /\ (/\ last.op = "search"
      /\ \/ "confidence" \notin DOMAIN last.match
         \/ last.match.confidence <=
              (IF last.source = "docs" THEN docsThreshold ELSE sheetsThreshold)) =>
       /\ handling.pc # "done"
       /\ ~last.accepted

\* A keyword-sheet match of confidence 71 has been returned.
C21_Witness ==
  /\ handling.pc = "done" /\ handling.path = "sheets"
  /\ last.op = "search"
  /\ last.match.confidence = sheetsThreshold + 1

\* --------------------------------------------------------------------- C22
\* C22: when the lookup in the primary source gives no accepted match, the
\* other source is looked up, with its own threshold, before the generated
\* response is asked for; in the handling of one message each source is
\* looked up at most once, and the primary source first.
C22_OtherSourceBeforeFallback ==
  handling.pc \in {"docs", "sheets", "fallback", "done"} /\ handling.primarySource # "" =>
    LET primary == handling.primarySource
        other == IF primary = "docs" THEN "sheets" ELSE "docs"
    IN /\ handling.attempts \in {<<>>, <<primary>>, <<primary, other>>}
       /\ handling.pc = "docs" \/ handling.pc = "sheets" =>
            handling.attempts = (IF handling.pc = primary THEN <<>> ELSE <<primary>>)
       /\ (handling.pc = "fallback" \/ (handling.pc = "done" /\ handling.path = "ai")) =>
            handling.attempts = <<primary, other>>
       /\ (handling.pc = "done" /\ handling.path = other) =>
            /\ handling.attempts = <<primary, other>>
            /\ last.match.confidence >
                 (IF other = "docs" THEN docsThreshold ELSE sheetsThreshold)

\* The generated response was the reply after the keyword sheet, the primary
\* source, and then the document gave no accepted match.
C22_Witness ==
  /\ handling.pc = "done" /\ handling.path = "ai"
  /\ handling.attempts = <<"sheets", "docs">>

\* --------------------------------------------------------------------- C23
\* C23: when Gemini cannot generate the response of the last step (it is not
\* available, or generateResponse fails), the reply is put together without
\* it from what the document search finds; the default response is given
\* only when the search finds nothing.
C23_HardFallbackFromDocuments ==
  (/\ last.op = "fallback"
   /\ ~last.available \/ last.generated.kind = "error"
   /\ last.context # <<>>) =>
    last.aiResponse =
      generateResponseFromGoogleDocs(last.context, last.setting.personalityDefault,
                                     last.setting.configured)

\* --------------------------------------------------------------------- C24
\* C24: when every call to the document, the keyword sheet and Gemini fails
\* while a message is handled, the reply is the configured default response,
\* character for character.
C24_DefaultVerbatim ==
  (last.op = "fallback" /\ handling.outage) =>
    handling.reply \in {EnvDefault(last.setting.configured),
                        PersonalityDefault(last.setting.personalityDefault,
                                           last.setting.configured)}

\* --------------------------------------------------------------------- C25
\* C25: with the keyword sheet holding the entry of the price keyword and
\* the message being that keyword, the reply is exactly the entry's answer;
\* an answer of the keyword sheet is given as it is, with no closing line.
C25_ExactKeywordHit ==
  /\ (/\ handling.pc = "done" /\ handling.path # "startup"
      /\ handling.message = priceKeyword /\ handling.held) =>
       handling.reply = priceAnswer
  /\ (handling.pc = "done" /\ handling.path = "sheets") =>
       /\ ~includes(handling.reply, closing)
       /\ includes(last.match.answer, handling.reply)

\* --------------------------------------------------------------------- C28
\* C28: when the classification request of analyzeMessageWithAI fails or its
\* response is not JSON, the classification is the neutral default (question
\* type 'general', intent 'general_inquiry', isGeneral true, confidence 50)
\* and the handling goes on to the lookup in the primary source.
C28_NeutralClassification ==
  (last.op = "analysis" /\ last.classify \in {"text", "error"}) =>
    /\ last.classification.questionType = "general"
    /\ last.classification.intent = "general_inquiry"
    /\ last.classification.isGeneral = TRUE
    /\ last.classification.confidence = 50
    /\ handling.primarySource \in {"docs", "sheets"}
    /\ handling.pc = handling.primarySource

\* A message whose classification response was not JSON is on its way to
\* the lookup in the document.
C28_Witness ==
  /\ last.op = "analysis" /\ last.classify = "text"
  /\ handling.pc = "docs"

\* --------------------------------------------------------------------- C29
\* C29 as stated: findBestAnswerWithAI returns null whenever the response of
\* the LLM is not JSON once the code fences are removed, or names no keyword
\* or no answer; a match it returns is the one parsed from that response.
C29_NoneUnlessParsed ==
  last.op = "search" =>
    /\ (\/ last.response.kind = "error"
        \/ ~Parses(cleanJsonResponse(last.response))
        \/ ~IndicatesMatch(last.response)) => last.match = NoMatch
    /\ last.match # NoMatch =>
         /\ last.response.kind = "object"
         /\ last.match = last.response.value

\* C29 amended: findBestAnswerWithAI returns null when the keyword sheet is
\* the source and is empty, and when the parsed response names no keyword or
\* no answer; it returns the parsed object when that names both; and when
\* the request fails or the response is not JSON it returns what
\* findKeywordMatch finds in the keyword sheet for the message.
C29_KeywordMatchWhenUnparsed ==
  last.op = "search" =>
    IF last.source = "sheets" /\ Len(last.data) = 0 THEN last.match = NoMatch
    ELSE IF last.response.kind = "error" \/ ~Parses(cleanJsonResponse(last.response))
      THEN last.match = (IF last.available
                           THEN keywordMatch(last.data, last.message)
                           ELSE NoMatch)
    ELSE IF IndicatesMatch(last.response) THEN last.match = last.response.value
    ELSE last.match = NoMatch

\* The response was not JSON and the entry of the keyword sheet that matches
\* the message was returned.
C29_Witness ==
  /\ last.op = "search" /\ last.response.kind = "text"
  /\ last.match # NoMatch /\ last.match.matchType = "exact"
  /\ last.match.answer = priceAnswer

\* --------------------------------------------------------------------- C30
\* C30: the refresh timer and the session sweep do not wait for the request
\* sequencer, nor the sequencer for them: a sweep that is due can run, and a
\* refresh can start and go on, whatever the worker is doing, and the worker
\* can take up the next message and go on whatever the refresh is doing.
C30_TimersIndependent ==
  /\ (cleanupTimer # 0 /\ now >= cleanupTimer) => ENABLED TimerCleanup
  /\ loads["timer"] = NotLoading => ENABLED StartLoad("timer")
  /\ loads["timer"] # NotLoading => ENABLED RefreshStep
  /\ inFlight # {} => ENABLED WorkerStep
  /\ nextId < MaxRequests => ENABLED processMessage("u1", "m1", FALSE)

\* The sweep has run while a message was being handled and the refresh was
\* waiting for a request.
C30_Witness ==
  /\ last.op = "cleanup"
  /\ inFlight # {}
  /\ loads["timer"] # NotLoading

\* --------------------------------------------------------------------- C33
\* C33: when the request of the lookup in the keyword sheet fails or its
\* response is not JSON, and findKeywordMatch finds an entry for the
\* message, the reply to the message is the answer of that entry.
C33_KeywordEntryAnswers ==
  (/\ last.op = "search" /\ last.source = "sheets"
   /\ last.response.kind = "error" \/ ~Parses(cleanJsonResponse(last.response))
   /\ last.match # NoMatch) =>
    /\ handling.pc = "done"
    /\ handling.reply = last.match.answer

\* ------------------------------------------- specification: the rate limiter
LimiterNext ==
  \/ \E c \in WebhookCalls, events \in EventLists : lineHandler(c, events)
  \/ \E c \in WebhookCalls : processEventReturns(c)
  \/ LimiterTick
  \/ LimiterCleanup

LimiterSpec == Init /\ [][LimiterNext]_vars

\* The number of requests of the users and times in pairs that the limiter
\* admitted.
RECURSIVE AdmittedAt(_)
AdmittedAt(pairs) ==
  IF pairs = {} THEN 0
  ELSE LET p == CHOOSE x \in pairs : TRUE
       IN webhook.admitted[p[1], p[2]] + AdmittedAt(pairs \ {p})

\* The times of the window of length windowMs that starts at s.
WindowFrom(s) == {t \in 0..MaxLimiterTime : s <= t /\ t < s + windowMs}

\* --------------------------------------------------------------------- C31
\* C31: within every window of windowMs the limiter admits at most
\* userMaxRequests requests of one user and at most globalMaxRequests
\* requests of all users; an event that isAllowed denies is dropped and never
\* given to processEvent, and every other event of the call is processed.
C31_AdmittedWithinLimits ==
  /\ \A s \in 0..MaxLimiterTime :
       /\ \A u \in Users : AdmittedAt({u} \X WindowFrom(s)) <= userMaxRequests
       /\ AdmittedAt(Users \X WindowFrom(s)) <= globalMaxRequests
  /\ \A c \in WebhookCalls :
       webhook.calls[c].pc # "idle" =>
         LET call == webhook.calls[c]
         IN /\ call.dropped \cap call.processed = {}
            /\ call.dropped \cup call.processed =
                 1..(IF call.pc = "responded" THEN Len(call.events)
                     ELSE call.index - 1)
            /\ last.op = "lineHandler" =>
                 \A i \in DOMAIN last.decisions :
                   ~last.decisions[i].allowed <=>
                     last.decisions[i].index \in call.dropped

\* A call has answered after its first event was dropped for the user's limit
\* and its second event was processed.
C31_Witness ==
  \E c \in WebhookCalls :
    /\ webhook.calls[c].pc = "responded"
    /\ webhook.calls[c].dropped = {1}
    /\ webhook.calls[c].processed = {2}
    /\ webhook.calls[c].events[2] # NoUserId
    /\ last.op = "lineHandler"
    /\ \E u \in Users : AdmittedAt({u} \X WindowFrom(limiterNow - windowMs + 1))
                          = userMaxRequests

\* --------------------------------------------------------------------- C40
\* C40: an isAllowed call that returns allowed = false records nothing; a
\* step all of whose isAllowed calls are denied leaves this.requests, the
\* user's log and the global log in it, as it was.
C40_DeniedNotRecorded ==
  [][last'.op = "lineHandler" =>
       /\ \A i \in DOMAIN last'.decisions :
            ~last'.decisions[i].allowed => ~last'.decisions[i].recorded
       /\ (\A i \in DOMAIN last'.decisions : ~last'.decisions[i].allowed)
            => limiterRequests' = limiterRequests]_vars

\* A request was denied for the global limit while the user's own log was
\* below the user's limit.
C40_Witness ==
  /\ last.op = "lineHandler"
  /\ \E i \in DOMAIN last.decisions :
       /\ last.decisions[i].reason = "global_rate_limit_exceeded"
       /\ checkUserLimit(limiterRequests, last.decisions[i].userId, limiterNow,
                         RATE_LIMITS.user)

\* -------------------------------------- specification: AutoRefreshService
AutoRefreshNext ==
  \/ Start
  \/ Stop
  \/ \E interval \in Intervals : UpdateInterval(interval)
  \/ ForceRefresh
  \/ \E id \in 1..MaxTimers : IntervalFires(id)
  \/ RefreshDataReturns

AutoRefreshSpec == Init /\ [][AutoRefreshNext]_vars

\* --------------------------------------------------------------------- C36
\* C36: at most one interval timer is installed; isRunning holds exactly when
\* one is, and it is the timer of intervalId with a delay of refreshInterval,
\* which is at least 60000 ms; start() while running and stop() while stopped
\* change nothing; updateInterval keeps isRunning as it was.
C36_OneTimer ==
  /\ [](/\ Cardinality(DOMAIN timers.installed) <= 1
        /\ isRunning <=> DOMAIN timers.installed # {}
        /\ DOMAIN timers.installed = (IF isRunning THEN {intervalId} ELSE {})
        /\ isRunning <=> intervalId # 0
        /\ refreshInterval >= minInterval
        /\ \A id \in DOMAIN timers.installed :
             timers.installed[id] = refreshInterval)
  /\ [][/\ (last'.op = "start" /\ isRunning) => UNCHANGED autoRefreshVars
        /\ (last'.op = "stop" /\ ~isRunning) => UNCHANGED autoRefreshVars
        /\ last'.op = "updateInterval" =>
             /\ isRunning' = isRunning
             /\ refreshInterval' >= minInterval
             /\ refreshInterval' >= last'.interval]_vars

\* updateInterval was called with an interval below the minimum while the
\* service was running, and the service runs on a new timer.
C36_Witness ==
  /\ last.op = "updateInterval"
  /\ last.interval < minInterval
  /\ last.before.isRunning
  /\ last.before.refreshInterval > minInterval
  /\ isRunning
  /\ intervalId # last.before.intervalId

\* ------------------------------- specification: ChatService's document cache
SmallChatNext ==
  \/ chatGetDocumentContent
  \/ \E call \in chatCalls, content \in ProvidedContents :
       ProviderResolves(call, content)
  \/ \E call \in chatCalls : ProviderRejects(call)
  \/ ChatTick

SmallChatSpec == Init /\ [][SmallChatNext]_vars

\* --------------------------------------------------------------------- C38
\* C38: a getDocumentContent call of ChatService made while the cache holds a
\* document fetched less than chatCacheExpiry ago returns that document and
\* makes no call to the document provider.
C38_CachedWithinExpiry ==
  [][(/\ last'.op = "chatGetDocumentContent"
      /\ chatCache.documentContent # ""
      /\ chatCache.lastDocumentFetch # 0
      /\ chatNow - chatCache.lastDocumentFetch < chatCacheExpiry)
       => /\ providerFetches' = providerFetches
          /\ last'.result = chatCache.documentContent]_vars

\* ------------------------------------ specification: LineService's pushes
\* One sendTextMessage call with any text of the pool.
LineCallInit ==
  /\ ChatInit /\ DocsInit /\ SheetsInit /\ GeminiInit /\ AnalysisInit
  /\ HandlingInit /\ LimiterInit /\ AutoRefreshInit /\ SmallChatInit
  /\ pushed \in {[pc |-> "called", text |-> text, chunks |-> <<>>,
                  texts |-> <<>>] : text \in LineTexts}

LineNext ==
  \/ sendTextMessage
  \/ PushMessageResolves
  \/ PushMessageRejects

LineSpec == LineCallInit /\ [][LineNext]_vars

\* --------------------------------------------------------------------- C39
\* C39: no text that sendTextMessage gives to pushMessage, each chunk of
\* splitMessage(messageText, maxTextLength) included, is longer than
\* maxTextLength.
C39_ChunksWithinLimit ==
  pushed.pc \in {"pushing", "sent", "failed"} =>
    /\ \A i \in DOMAIN pushed.chunks : Len(pushed.chunks[i]) <= maxTextLength
    /\ \A i \in DOMAIN pushed.texts : Len(pushed.texts[i]) <= maxTextLength

\* --------------------------- specification: sessions of the queued messages
\* Messages of two users arrive as time passes, the cleanup interval fires,
\* and the worker answers. Consecutive messages differ in their text.
SessionNext ==
  \/ InitializeDone
  \/ Tick
  \/ TimerCleanup
  \/ \E u \in Users, c \in BOOLEAN :
       processMessage(u, IF nextId % 2 = 0 THEN "m1" ELSE "m2", c)
  \/ WorkerStep

SessionSpec == Init /\ [][SessionNext]_vars

\* The session of userId is stored and getUserSession would return it now.
Unexpired(userId) ==
  /\ userId \in DOMAIN userSessions
  /\ now - userSessions[userId].timestamp < sessionTimeout

\* --------------------------------------------------------------------- C34
\* C34: a processMessage call of a user whose session has not expired raises
\* the session's messageCount by exactly 1; a call of a user without a
\* session, or with an expired one, sets it to 1; no step changes the session
\* of a user other than the sender, except that a sweep or the sender's
\* cleanup removes it.
C34_CountsCurrentSession ==
  [][/\ last'.op = "processMessage" =>
          /\ last'.userId \in DOMAIN userSessions'
          /\ userSessions'[last'.userId].messageCount =
               IF Unexpired(last'.userId)
                 THEN userSessions[last'.userId].messageCount + 1
               ELSE 1
     /\ \A u \in DOMAIN userSessions' :
          (last'.op = "processMessage" => u # last'.userId) =>
             /\ u \in DOMAIN userSessions
             /\ userSessions'[u] = userSessions[u]]_vars

\* The third message of a live session arrived after a message of the other
\* user and a sweep.
C34_Witness ==
  /\ last.op = "processMessage"
  /\ userSessions[last.userId].messageCount = 3
  /\ DOMAIN userSessions = Users
  /\ cleanupTimer > cleanupInterval

\* --------------------------------------------------------------------- C35
\* C35: every processMessage call leaves the sender's session holding the
\* message as lastMessage, the time of the call as timestamp and the next
\* messageCount, whether addToQueue admits the message or turns it away.
C35_TouchedBeforeAdmission ==
  [][last'.op = "processMessage" =>
       /\ last'.userId \in DOMAIN userSessions'
       /\ userSessions'[last'.userId] =
            [lastMessage |-> last'.message,
             messageCount |-> IF Unexpired(last'.userId)
                                THEN userSessions[last'.userId].messageCount + 1
                              ELSE 1,
             timestamp |-> now]
       /\ last'.admitted <=> ~QueueFull(messageQueue)]_vars

\* A message was turned away by the full queue and the sender's session holds
\* it as the second message of the session.
C35_Witness ==
  /\ last.op = "processMessage"
  /\ ~last.admitted
  /\ last.reply.value = QueueFullApology
  /\ userSessions[last.userId].lastMessage = last.message
  /\ userSessions[last.userId].messageCount = 2
  /\ userSessions[last.userId].timestamp = now

\* ------------------------- specification: the sequencer with a fair worker
\* Every processMessageDirect call returns or raises: the worker's resumption
\* is not postponed for ever.
WorkerResumes ==
  \E item \in inFlight : \E outcome \in Outcomes(item) : Complete(item, outcome)

SequencerFairSpec ==
  Init /\ [][SequencerNext]_vars /\ WF_vars(WorkerResumes)

\* --------------------------------------------------------------------- C32
\* C32: while the queue holds a request isProcessing is set and a request is
\* inside processMessageDirect; every admitted request's promise is settled
\* in the end, by the completion of its own handling, and a settled promise
\* is never pending again.
C32_NoRequestStranded ==
  /\ [](/\ messageQueue # <<>> => isProcessing
        /\ isProcessing <=> inFlight # {}
        /\ pending = QueueIds \cup FlightIds)
  /\ [][/\ \A id \in 1..nextId : id \notin pending => id \notin pending'
        /\ pending' # pending /\ last'.op = "complete" =>
             /\ last'.id \in pending
             /\ pending' = pending \ {last'.id}]_vars
  /\ \A id \in 1..MaxRequests : (id \in pending) ~> (id \notin pending)

\* A request that waited in the queue behind another one has been settled.
C32_Witness ==
  /\ last.op = "complete"
  /\ last.id = 2
  /\ pending = {}
  /\ shed = {}
  /\ ~isProcessing
  /\ Len(invoked) = 2

====
